---------------------------- MODULE Spec2Model ----------------------------
(***************************************************************************)
(* KVideo: the M3U8 ad-filtering engine (lib/utils/m3u8-filter.ts), the    *)
(* multi-source speed test with its source selection and result cache      *)
(* (lib/utils/source-checker.ts) and the HLS error handler                 *)
(* (lib/utils/error-handler.ts).                                           *)
(*                                                                         *)
(* A playlist text is modelled by the sequence of its lines, i.e. by       *)
(* content.split('\n').  Strings are TLA+ strings drawn from a finite      *)
(* universe; the string predicates the code evaluates (startsWith,         *)
(* includes, trim, toLowerCase, the #EXTINF regular expression) are given  *)
(* by what they return on that universe.                                   *)
(***************************************************************************)
EXTENDS Integers, Sequences, FiniteSets, TLC

(***************************************************************************)
(* Bounds of the model.                                                    *)
(***************************************************************************)
MaxLines == 5

MaxTime == 15000

\* the clock advances in steps of this many milliseconds
TickStep == 5000

(***************************************************************************)
(* The universe of playlist lines.                                         *)
(***************************************************************************)
InputLines ==
  { "#EXTM3U",
    "#EXT-X-ENDLIST",
    "#EXT-X-DISCONTINUITY",
    "#EXTINF:4,",
    "#EXTINF:2,",
    "seg1.ts",
    " seg2.ts ",
    "/ADS/seg3.ts",
    "" }

BaseUrls ==
  { "https://cdn.example.com/v/index.m3u8",
    "https://cdn.example.com/promo/index.m3u8" }

\* String.prototype.trim
Trim(s) == IF s = " seg2.ts " THEN "seg2.ts" ELSE s

\* line.startsWith(prefix), for the prefixes the parser tests
StartsWith(s, prefix) ==
  CASE prefix = "#"        -> s \in { "#EXTM3U", "#EXT-X-ENDLIST", "#EXT-X-DISCONTINUITY",
                                     "#EXTINF:4,", "#EXTINF:2," }
    [] prefix = "#EXTM3U"  -> s = "#EXTM3U"
    [] prefix = "#EXT-X-"  -> s \in { "#EXT-X-ENDLIST", "#EXT-X-DISCONTINUITY" }
    [] prefix = "#EXTINF"  -> s \in { "#EXTINF:4,", "#EXTINF:2," }
    [] prefix = "http://"  -> FALSE
    [] prefix = "https://" -> s \in { "https://cdn.example.com/v/seg1.ts",
                                     "https://cdn.example.com/v/seg2.ts",
                                     "https://cdn.example.com/promo/seg1.ts",
                                     "https://cdn.example.com/promo/seg2.ts",
                                     "https://cdn.example.com/ADS/seg3.ts",
                                     "https://cdn.example.com/ads/seg3.ts" } \cup BaseUrls
    [] OTHER               -> FALSE

\* String.prototype.toLowerCase
ToLowerCase(s) ==
  CASE s = "https://cdn.example.com/ADS/seg3.ts" -> "https://cdn.example.com/ads/seg3.ts"
    [] s = "/ADS/seg3.ts"                        -> "/ads/seg3.ts"
    [] OTHER                                     -> s

\* s.includes(sub), for the substrings the filter looks for
Includes(s, sub) ==
  CASE sub = "DISCONTINUITY" -> s = "#EXT-X-DISCONTINUITY"
    [] sub = "/ads/"         -> s \in { "https://cdn.example.com/ads/seg3.ts", "/ads/seg3.ts" }
    [] sub = "/promo/"       -> s \in { "https://cdn.example.com/promo/seg1.ts",
                                       "https://cdn.example.com/promo/seg2.ts",
                                       "https://cdn.example.com/promo/index.m3u8" }
    [] sub = "promo"         -> s \in { "https://cdn.example.com/promo/seg1.ts",
                                       "https://cdn.example.com/promo/seg2.ts",
                                       "https://cdn.example.com/promo/index.m3u8" }
    [] sub = "seg1"          -> s \in { "seg1.ts", "https://cdn.example.com/v/seg1.ts",
                                       "https://cdn.example.com/promo/seg1.ts" }
    [] OTHER                 -> FALSE

\* line.match(/#EXTINF:([\d.]+)/) and parseFloat of the capture; -1 is `undefined'
ExtinfDuration(s) ==
  CASE s = "#EXTINF:4," -> 4
    [] s = "#EXTINF:2," -> 2
    [] OTHER            -> -1

\* new URL(url, new URL(baseUrl)).href for the relative references of the universe
UrlHref(url, baseUrl) ==
  CASE url = "/ADS/seg3.ts" -> "https://cdn.example.com/ADS/seg3.ts"
    [] baseUrl = "https://cdn.example.com/v/index.m3u8"     -> "https://cdn.example.com/v/" \o url
    [] baseUrl = "https://cdn.example.com/promo/index.m3u8" -> "https://cdn.example.com/promo/" \o url
    [] OTHER -> url

(***************************************************************************)
(* m3u8-filter.ts                                                          *)
(***************************************************************************)
AD_PATTERNS ==
  { "/ad/", "/ads/", "/advertisement/", "/advert/", "_ad_", "_ads_", "-ad-", "-ads-",
    "ad.ts", "ad.m3u8", "ads.ts", "ads.m3u8", "advert", "commercial", "/promo/" }

AD_KEYWORDS == { "advertisement", "commercial", "sponsored", "promo", "banner" }

isAdSegment(url) ==
  LET lowerUrl == ToLowerCase(url)
  IN  IF \E pattern \in AD_PATTERNS : Includes(lowerUrl, pattern) THEN TRUE
      ELSE IF \E keyword \in AD_KEYWORDS : Includes(lowerUrl, keyword) THEN TRUE
      ELSE FALSE

resolveUrl(url, baseUrl) ==
  IF StartsWith(url, "http://") \/ StartsWith(url, "https://") THEN url
  ELSE UrlHref(url, baseUrl)

\* The state of parseM3U8's loop before line i; `i' is the loop index.
ParseStart ==
  [ header |-> << >>, segments |-> << >>, currentMetadata |-> << >>, inHeader |-> TRUE ]

\* One iteration of the for loop of parseM3U8 at index i: the new loop state and
\* the index the next iteration starts at.
ParseLine(lines, i, st, baseUrl) ==
  LET line == Trim(lines[i]) IN
  IF line = "" THEN [ st |-> st, next |-> i + 1 ]
  ELSE IF StartsWith(line, "#EXTM3U")
    THEN [ st |-> [st EXCEPT !.header = Append(@, line)], next |-> i + 1 ]
  ELSE IF st.inHeader /\ StartsWith(line, "#EXT-X-")
    THEN [ st |-> [st EXCEPT !.header = Append(@, line)], next |-> i + 1 ]
  ELSE IF StartsWith(line, "#EXTINF")
    THEN LET meta     == Append(st.currentMetadata, line)
             duration == ExtinfDuration(line)
             st1      == [st EXCEPT !.inHeader = FALSE, !.currentMetadata = meta]
         IN  IF i + 1 <= Len(lines)
               THEN LET urlLine == Trim(lines[i + 1]) IN
                    IF urlLine # "" /\ ~StartsWith(urlLine, "#")
                      THEN [ st |-> [st1 EXCEPT
                                       !.segments = Append(@,
                                          [ duration |-> duration,
                                            url      |-> urlLine,
                                            metadata |-> meta,
                                            isAd     |-> isAdSegment(resolveUrl(urlLine, baseUrl)) ]),
                                       !.currentMetadata = << >>],
                             next |-> i + 2 ]
                      ELSE [ st |-> st1, next |-> i + 2 ]
               ELSE [ st |-> st1, next |-> i + 1 ]
  ELSE IF StartsWith(line, "#")
    THEN IF st.inHeader
           THEN [ st |-> [st EXCEPT !.header = Append(@, line)], next |-> i + 1 ]
           ELSE [ st |-> [st EXCEPT !.currentMetadata = Append(@, line)], next |-> i + 1 ]
  ELSE [ st |-> st, next |-> i + 1 ]

RECURSIVE ParseLoop(_, _, _, _)
ParseLoop(lines, i, st, baseUrl) ==
  IF i > Len(lines) THEN st
  ELSE LET r == ParseLine(lines, i, st, baseUrl)
       IN  ParseLoop(lines, r.next, r.st, baseUrl)

\* parseM3U8(content, baseUrl): { header, segments }
parseM3U8(content, baseUrl) ==
  LET st == ParseLoop(content, 1, ParseStart, baseUrl)
  IN  [ header |-> st.header, segments |-> st.segments ]

\* How a call of parseM3U8 ends. The function has no throw statement; trim,
\* startsWith, match and parseFloat do not throw on strings, and resolveUrl
\* catches what new URL throws: every path ends at `return { header, segments }'.
parseM3U8Outcome(content, baseUrl) ==
  [ kind |-> "returned", value |-> parseM3U8(content, baseUrl) ]

\* segments.filter(segment => !segment.isAd)
NotAd(segment) == ~segment.isAd

\* Mutant of FilterAds: the filter keeps every segment.
FilterAdsKeepsAll(segments) == segments

FilterAds(segments) == SelectSeq(segments, NotAd)

\* segment.metadata.some(line => line.includes('DISCONTINUITY'))
HasDiscontinuity(segment) ==
  \E k \in 1..Len(segment.metadata) : Includes(segment.metadata[k], "DISCONTINUITY")

NotDiscontinuity(line) == ~Includes(line, "DISCONTINUITY")

\* << line, url >> for every line of metadata, concatenated
RECURSIVE UrlAfterEach(_, _)
UrlAfterEach(metadata, url) ==
  IF metadata = << >> THEN << >>
  ELSE << Head(metadata), url >> \o UrlAfterEach(Tail(metadata), url)

\* Mutant of EmitSegment: the url is pushed inside the metadata loop.
EmitSegmentUrlInLoop(filteredSegments, i, needsDiscontinuity) ==
  LET segment == filteredSegments[i]
  IN  [ lines |-> UrlAfterEach(SelectSeq(segment.metadata, NotDiscontinuity), segment.url),
        needsDiscontinuity |-> needsDiscontinuity ]

\* The lines one iteration of the rebuild loop pushes for filteredSegments[i],
\* and needsDiscontinuity after it.
EmitSegment(filteredSegments, i, needsDiscontinuity) ==
  LET segment == filteredSegments[i]
      marker  == IF i > 1 /\ needsDiscontinuity /\ ~HasDiscontinuity(segment)
                   THEN << "#EXT-X-DISCONTINUITY" >> ELSE << >>
  IN  [ lines |-> marker \o SelectSeq(segment.metadata, NotDiscontinuity) \o << segment.url >>,
        needsDiscontinuity |-> IF i > 1 /\ needsDiscontinuity THEN FALSE ELSE needsDiscontinuity ]

RECURSIVE RebuildLoop(_, _, _, _)
RebuildLoop(filteredSegments, i, needsDiscontinuity, output) ==
  IF i > Len(filteredSegments) THEN output
  ELSE LET r == EmitSegment(filteredSegments, i, needsDiscontinuity)
       IN  RebuildLoop(filteredSegments, i + 1, r.needsDiscontinuity, output \o r.lines)

\* output.join('\n') followed by split('\n'): the empty output is the empty
\* string, which splits into one empty line.
JoinLines(output) == IF output = << >> THEN << "" >> ELSE output

\* filterM3U8Playlist after its call of parseM3U8, as the lines of the
\* returned text
FilterParsed(parsedPlaylist) ==
  LET filteredSegments == FilterAds(parsedPlaylist.segments)
  IN  JoinLines(RebuildLoop(filteredSegments, 1, FALSE, parsedPlaylist.header))

\* filterM3U8Playlist(content, baseUrl), as the lines of the returned text
filterM3U8Playlist(content, baseUrl) == FilterParsed(parseM3U8(content, baseUrl))

(***************************************************************************)
(* source-switcher.ts                                                      *)
(*                                                                         *)
(* Times are milliseconds.  A SourceSpeedResult is a record; NoResult      *)
(* stands for a promise that has not settled.                              *)
(***************************************************************************)
SPEED_TEST_TIMEOUT == 10000

URL_TEST_TIMEOUT == 5000

\* Number.POSITIVE_INFINITY: larger than every finite latency of the model
Infinity == 999999999

\* the `sources' argument of testAllSources, in the order given
Sources == << "A", "B", "C" >>

SourceIds == { Sources[k] : k \in 1..Len(Sources) }

\* the `currentSource' argument: not supplied, one of the sources, or an id
\* that is not among the tested sources
CurrentSourceArgs == { "" } \cup SourceIds \cup { "Z" }

NoResult == [ source |-> "", speed |-> 0, available |-> FALSE, error |-> "" ]

\* testSourceSpeed: the three unavailable returns of the try block
NotFoundResult(s) ==
  [ source |-> s, speed |-> Infinity, available |-> FALSE,
    error |-> "Video not found in this source" ]

NoEpisodesResult(s) ==
  [ source |-> s, speed |-> Infinity, available |-> FALSE, error |-> "No episodes available" ]

NotAccessibleResult(s) ==
  [ source |-> s, speed |-> Infinity, available |-> FALSE, error |-> "Video URL not accessible" ]

\* testSourceSpeed: the successful return, totalTime = Date.now() - startTime
AvailableResult(s, totalTime) ==
  [ source |-> s, speed |-> totalTime, available |-> TRUE, error |-> "" ]

\* testSourceSpeed: the catch block, with the message of the error caught
CaughtResult(s, message) ==
  [ source |-> s, speed |-> Infinity, available |-> FALSE, error |-> message ]

\* testAllSources: the value the deadline timer resolves the race with
TimeoutResult(s) ==
  [ source |-> s, speed |-> Infinity, available |-> FALSE, error |-> "Timeout" ]

\* Mutant of OnThrow: no catch block, the promise of testSourceSpeed is rejected.
OnThrowRejects(p, s, message) == [ p EXCEPT !.pc = "rejected", !.urlTestStartTime = 0 ]

\* The state of one testSourceSpeed call when an awaited step throws: the catch
\* block returns a result, the promise is fulfilled.
OnThrow(p, s, message) ==
  [ p EXCEPT !.pc = "returned", !.urlTestStartTime = 0, !.result = CaughtResult(s, message) ]

\* The state of one testSourceSpeed call when it returns r.
OnReturn(p, r) == [ p EXCEPT !.pc = "returned", !.urlTestStartTime = 0, !.result = r ]

\* Mutant of RaceAfterProbe: the result of the probe replaces what is there.
RaceAfterProbeOverwrites(race, s, p) == [ race EXCEPT ![s] = p.result ]

\* Promise.race([testSourceSpeed(...), timer]): the race promise takes the
\* outcome of whichever settles first; a later settlement is ignored.
\* RaceAfterProbe: testSourceSpeed has settled in state p.
RaceAfterProbe(race, s, p) ==
  IF race[s] # NoResult THEN race
  ELSE IF p.pc = "rejected" THEN [ race EXCEPT ![s] = [ NoResult EXCEPT !.source = "rejected" ] ]
  ELSE [ race EXCEPT ![s] = p.result ]

\* Mutant of RaceAfterTimer: the probes are awaited without a deadline.
RaceAfterTimerIgnored(race, s) == race

\* Mutant of RaceAfterTimer: the timer replaces a result already there.
RaceAfterTimerOverwrites(race, s) == [ race EXCEPT ![s] = TimeoutResult(s) ]

\* RaceAfterTimer: the setTimeout callback of source s has run.
RaceAfterTimer(race, s) ==
  IF race[s] # NoResult THEN race ELSE [ race EXCEPT ![s] = TimeoutResult(s) ]

\* x - y on IEEE numbers; Infinity - Infinity is NaN
Subtract(x, y) ==
  IF x = Infinity /\ y = Infinity THEN [ nan |-> TRUE, val |-> 0 ]
  ELSE IF x = Infinity THEN [ nan |-> FALSE, val |-> Infinity ]
  ELSE IF y = Infinity THEN [ nan |-> FALSE, val |-> -Infinity ]
  ELSE [ nan |-> FALSE, val |-> x - y ]

Number(v) == [ nan |-> FALSE, val |-> v ]

\* Mutant of comparefn: the test of b against the current source is missing.
comparefnOnlyA(a, b, cur) ==
  IF cur # "" /\ a.source = cur THEN Number(-1)
  ELSE IF ~a.available /\ b.available THEN Number(1)
  ELSE IF a.available /\ ~b.available THEN Number(-1)
  ELSE Subtract(a.speed, b.speed)

\* Mutant of comparefn: the speeds are subtracted the other way round.
comparefnDescending(a, b, cur) ==
  IF cur # "" /\ a.source = cur THEN Number(-1)
  ELSE IF cur # "" /\ b.source = cur THEN Number(1)
  ELSE IF ~a.available /\ b.available THEN Number(1)
  ELSE IF a.available /\ ~b.available THEN Number(-1)
  ELSE Subtract(b.speed, a.speed)

\* the comparator passed to results.sort
comparefn(a, b, cur) ==
  IF cur # "" /\ a.source = cur THEN Number(-1)
  ELSE IF cur # "" /\ b.source = cur THEN Number(1)
  ELSE IF ~a.available /\ b.available THEN Number(1)
  ELSE IF a.available /\ ~b.available THEN Number(-1)
  ELSE Subtract(a.speed, b.speed)

\* SortCompare of Array.prototype.sort: a NaN from the comparator counts as +0
SortCompare(a, b, cur) ==
  LET v == comparefn(a, b, cur) IN IF v.nan THEN 0 ELSE v.val

\* Array.prototype.sort is stable: x goes before the first element it is
\* strictly less than.
RECURSIVE InsertSorted(_, _, _)
InsertSorted(sorted, x, cur) ==
  IF sorted = << >> THEN << x >>
  ELSE IF SortCompare(x, Head(sorted), cur) < 0 THEN << x >> \o sorted
  ELSE << Head(sorted) >> \o InsertSorted(Tail(sorted), x, cur)

RECURSIVE SortResults(_, _)
SortResults(results, cur) ==
  IF results = << >> THEN << >>
  ELSE InsertSorted(SortResults(SubSeq(results, 1, Len(results) - 1), cur),
                    results[Len(results)], cur)

(***************************************************************************)
(* source-checker.ts: findBestSource and shouldSwitchSource.               *)
(***************************************************************************)
\* the longest results array handed to findBestSource
MaxResults == 3

\* the latencies of the available results
Speeds == { 0, 400, 500, 1000, 1500 }

\* the value null of a SourceSpeedResult | null
NullResult == [ source |-> "null", speed |-> 0, available |-> FALSE, error |-> "" ]

\* the results a speed test can report for source s
ResultsOf(s) == { AvailableResult(s, v) : v \in Speeds } \cup { TimeoutResult(s) }

\* the results arrays of length n: entry k is a result of the k-th source
ResultArraysOfLen(n) ==
  IF n = 0 THEN { << >> }
  ELSE { arr \in [ 1..n -> UNION { ResultsOf(s) : s \in SourceIds } ] :
           \A k \in 1..n : arr[k].source = Sources[((k - 1) % Len(Sources)) + 1] }

ResultArrays == UNION { ResultArraysOfLen(n) : n \in 0..MaxResults }

\* results.filter(r => r.available)
IsAvailable(r) == r.available

\* availableSources.reduce((best, current) => current.speed < best.speed ? current : best):
\* without an initial value the first element starts as best
RECURSIVE ReduceFastest(_, _, _)
ReduceFastest(arr, i, best) ==
  IF i > Len(arr) THEN best
  ELSE ReduceFastest(arr, i + 1, IF arr[i].speed < best.speed THEN arr[i] ELSE best)

\* Mutant of findBestSource: the results are not filtered by availability.
findBestSourceUnfiltered(results) ==
  IF Len(results) = 0 THEN NullResult
  ELSE ReduceFastest(results, 2, results[1])

findBestSource(results) ==
  LET availableSources == SelectSeq(results, IsAvailable)
  IN  IF Len(availableSources) = 0 THEN NullResult
      ELSE ReduceFastest(availableSources, 2, availableSources[1])

\* x / y on numbers: a finite quotient is kept as numerator and denominator,
\* a division by zero gives NaN, Infinity or -Infinity
Divide(x, y) ==
  IF y # 0 THEN [ class |-> "finite", num |-> x, den |-> y ]
  ELSE IF x = 0 THEN [ class |-> "NaN", num |-> 0, den |-> 0 ]
  ELSE IF x > 0 THEN [ class |-> "Infinity", num |-> 0, den |-> 0 ]
  ELSE [ class |-> "-Infinity", num |-> 0, den |-> 0 ]

\* q > 0.5
GreaterThanHalf(q) ==
  IF q.class = "finite"
  THEN IF q.den > 0 THEN 2 * q.num > q.den ELSE 2 * q.num < q.den
  ELSE q.class = "Infinity"

\* Mutant of shouldSwitchSource: improvement >= 0.5.
shouldSwitchSourceAtHalf(currentResult, bestResult) ==
  IF ~currentResult.available THEN TRUE
  ELSE IF ~bestResult.available THEN FALSE
  ELSE LET improvement == Divide(currentResult.speed - bestResult.speed, currentResult.speed)
       IN  GreaterThanHalf(improvement)
           \/ (improvement.class = "finite" /\ 2 * improvement.num = improvement.den)

shouldSwitchSource(currentResult, bestResult) ==
  IF ~currentResult.available THEN TRUE
  ELSE IF ~bestResult.available THEN FALSE
  ELSE LET improvement == Divide(currentResult.speed - bestResult.speed, currentResult.speed)
       IN  GreaterThanHalf(improvement)

(***************************************************************************)
(* source-checker.ts: the speed-test cache.                                *)
(*                                                                         *)
(* The value stored under SPEED_TEST_CACHE_KEY is modelled after           *)
(* JSON.parse: the sequence of its entries in key order (Object.entries),  *)
(* an entry being [ title, results, timestamp ].  A missing item reads as  *)
(* '{}', the empty sequence.  The titles are not integer-like, so the key  *)
(* order is the insertion order.                                           *)
(***************************************************************************)
CACHE_DURATION == 5 * 60 * 1000

\* the literal of `entries.length > 10' and `sorted.slice(0, 10)'
MAX_ENTRIES == 10

\* the number of distinct video titles; title k is the k-th of them
MaxTitles == 11

Titles == 1..MaxTitles

\* the values Date.now() takes, around one CACHE_DURATION
ClockTimes == { 0, 1, CACHE_DURATION, CACHE_DURATION + 1 }

\* the value null where JSON holds a number
JsonNull == -1

\* the results arrays passed to setCachedSpeedTest
ResultsArgs == { << AvailableResult("A", 500) >>, << TimeoutResult("A") >> }

\* JSON.parse(JSON.stringify(results)): JSON has no Infinity, it is written as null
JsonResults(results) ==
  [ k \in 1..Len(results) |->
      [ results[k] EXCEPT !.speed = IF @ = Infinity THEN JsonNull ELSE @ ] ]

\* JSON.parse(JSON.stringify(cache))
JsonCache(cache) ==
  [ k \in 1..Len(cache) |-> [ cache[k] EXCEPT !.results = JsonResults(@) ] ]

\* the position of the key videoTitle, 0 when the object has no such key
KeyIndex(cache, videoTitle) ==
  IF \E k \in 1..Len(cache) : cache[k].title = videoTitle
  THEN CHOOSE k \in 1..Len(cache) : cache[k].title = videoTitle
  ELSE 0

\* cache[videoTitle] = entry: an existing key keeps its place, a new key is last
PutEntry(cache, entry) ==
  LET k == KeyIndex(cache, entry.title)
  IN  IF k = 0 THEN Append(cache, entry) ELSE [ cache EXCEPT ![k] = entry ]

\* Mutant of CompareTimestamps: ascending, a[1].timestamp - b[1].timestamp.
CompareTimestampsAscending(a, b) == a.timestamp - b.timestamp

\* (a, b) => b[1].timestamp - a[1].timestamp
CompareTimestamps(a, b) == b.timestamp - a.timestamp

\* entries.sort(CompareTimestamps); Array.prototype.sort is stable
RECURSIVE InsertEntry(_, _)
InsertEntry(sorted, x) ==
  IF sorted = << >> THEN << x >>
  ELSE IF CompareTimestamps(x, Head(sorted)) < 0 THEN << x >> \o sorted
  ELSE << Head(sorted) >> \o InsertEntry(Tail(sorted), x)

RECURSIVE SortEntries(_)
SortEntries(entries) ==
  IF entries = << >> THEN << >>
  ELSE InsertEntry(SortEntries(SubSeq(entries, 1, Len(entries) - 1)), entries[Len(entries)])

\* `Keep only recent entries (max 10)': the object that is stored
KeepRecent(entries) ==
  IF Len(entries) > MAX_ENTRIES
  THEN SubSeq(SortEntries(entries), 1, MAX_ENTRIES)
  ELSE entries

\* setCachedSpeedTest(videoTitle, results) from getItem to the argument of
\* setItem: `cache' is the parsed item, `dateNow' the value of Date.now()
NewCache(cache, videoTitle, results, dateNow) ==
  JsonCache(KeepRecent(PutEntry(cache, [ title |-> videoTitle, results |-> results,
                                         timestamp |-> dateNow ])))

\* what getCachedSpeedTest returns: null is [ hit |-> FALSE ]
NullResults == [ hit |-> FALSE, results |-> << >> ]

\* Date.now() - cached.timestamp > CACHE_DURATION
IsStale(cached, dateNow) == dateNow - cached.timestamp > CACHE_DURATION

\* getCachedSpeedTest(videoTitle) on the parsed item
getCachedSpeedTest(cache, videoTitle, dateNow) ==
  LET k == KeyIndex(cache, videoTitle)
  IN  IF k = 0 THEN NullResults
      ELSE IF IsStale(cache[k], dateNow) THEN NullResults
      ELSE [ hit |-> TRUE, results |-> cache[k].results ]

(***************************************************************************)
(* error-handler.ts: handleHLSError.  The hls argument is not used.        *)
(***************************************************************************)
maxRetries == 3

\* the largest retryCount a call is made with
MaxRetryCount == 5

\* the errorData of Hls.Events.ERROR: details "" stands for a missing detail
ErrorDataArgs ==
  [ type : { "networkError", "mediaError", "otherError" },
    details : { "bufferAppendError", "bufferStalledError", "fragParsingError", "" },
    fatal : BOOLEAN ]

\* Mutant of createVideoError: the retryable argument is left at its default.
createVideoErrorDefault(type, message, retryable) ==
  [ type |-> type, message |-> message, retryable |-> TRUE, retryCount |-> 0 ]

createVideoError(type, message, retryable) ==
  [ type |-> type, message |-> message, retryable |-> retryable, retryCount |-> 0 ]

\* Mutant of NetworkRetry: the network branch never returns.
NetworkRetryNever(errorData, retryCount) == FALSE

\* Mutant of NetworkRetry: retryCount <= maxRetries.
NetworkRetryInclusive(errorData, retryCount) ==
  errorData.type = "networkError" /\ retryCount <= maxRetries

\* the network branch that returns
NetworkRetry(errorData, retryCount) ==
  errorData.type = "networkError" /\ retryCount < maxRetries

\* Mutant of StalledRetry: the stalled branch is bounded by maxRetries.
StalledRetryBounded(errorData, retryCount) ==
  /\ errorData.type = "mediaError"
  /\ errorData.details = "bufferStalledError"
  /\ retryCount < maxRetries

\* the bufferStalledError branch
StalledRetry(errorData, retryCount) ==
  errorData.type = "mediaError" /\ errorData.details = "bufferStalledError"

\* Mutant of IsFatal: every fault counts as fatal.
IsFatalAlways(errorData) == TRUE

\* Mutant of IsFatal: the fatal flag is not looked at.
IsFatalNever(errorData) == FALSE

\* if (errorData.fatal)
IsFatal(errorData) == errorData.fatal

handleHLSError(errorData, retryCount) ==
  IF NetworkRetry(errorData, retryCount) THEN
    [ shouldRetry |-> TRUE, action |-> "startLoad",
      error |-> createVideoError("NETWORK_ERROR", "Network error while loading video", TRUE) ]
  ELSE IF /\ errorData.type = "mediaError"
          /\ errorData.details = "bufferAppendError"
          /\ retryCount < maxRetries THEN
    [ shouldRetry |-> TRUE, action |-> "recoverMedia",
      error |-> createVideoError("MEDIA_ERROR", "Buffer append error", TRUE) ]
  ELSE IF StalledRetry(errorData, retryCount) THEN
    [ shouldRetry |-> TRUE, action |-> "startLoad",
      error |-> createVideoError("MEDIA_ERROR", "Buffer stalled error", TRUE) ]
  ELSE IF errorData.type = "mediaError" /\ retryCount < maxRetries THEN
    [ shouldRetry |-> TRUE, action |-> "recoverMedia",
      error |-> createVideoError("MEDIA_ERROR", "Media error occurred", TRUE) ]
  ELSE IF IsFatal(errorData) THEN
    [ shouldRetry |-> FALSE, action |-> "destroy",
      error |-> createVideoError("HLS_ERROR", "Fatal HLS error", FALSE) ]
  ELSE
    [ shouldRetry |-> FALSE, action |-> "none",
      error |-> createVideoError("HLS_ERROR",
                                 IF errorData.details # "" THEN errorData.details
                                 ELSE "Unknown HLS error", FALSE) ]

(***************************************************************************)
(* m3u8-filter.ts: the custom ad patterns kept in localStorage.            *)
(***************************************************************************)
\* the patterns the calls are made with
CustomPatterns == { "seg1", "SEG1", "seg2", "/v/", "banner" }

\* Mutant of addCustomAdPattern: the pattern is pushed without the includes test.
addCustomAdPatternAlways(patterns, pattern) == Append(patterns, pattern)

\* the list addCustomAdPattern(pattern) leaves in the store
addCustomAdPattern(patterns, pattern) ==
  IF \E k \in 1..Len(patterns) : patterns[k] = pattern THEN patterns
  ELSE Append(patterns, pattern)

\* the list removeCustomAdPattern(pattern) stores
removeCustomAdPattern(patterns, pattern) ==
  LET differs(p) == p # pattern IN SelectSeq(patterns, differs)

(***************************************************************************)
(* history-store.ts: viewingHistory. An item is its videoId and its        *)
(* timestamp; every video has one title and one source, so two items have  *)
(* the same showIdentifier exactly when they have the same videoId.        *)
(***************************************************************************)
MAX_HISTORY_ITEMS == 50

\* the calls of one run of the store
MaxCalls == 52

\* the calls of one run that are not addToHistory of a new video
MaxOtherCalls == 1

\* Mutant of addToHistory: the item is added without the findIndex test.
addToHistoryAlways(viewingHistory, videoId, timestamp) ==
  LET newHistory == << [ videoId |-> videoId, timestamp |-> timestamp ] >> \o viewingHistory
  IN  IF Len(newHistory) > MAX_HISTORY_ITEMS
        THEN SubSeq(newHistory, 1, MAX_HISTORY_ITEMS)
        ELSE newHistory

\* Mutant of addToHistory: an existing item is updated where it is.
addToHistoryInPlace(viewingHistory, videoId, timestamp) ==
  LET found == \E k \in 1..Len(viewingHistory) : viewingHistory[k].videoId = videoId
      newHistory ==
        IF found
          THEN [ k \in 1..Len(viewingHistory) |->
                   IF viewingHistory[k].videoId = videoId
                     THEN [ viewingHistory[k] EXCEPT !.timestamp = timestamp ]
                     ELSE viewingHistory[k] ]
          ELSE << [ videoId |-> videoId, timestamp |-> timestamp ] >> \o viewingHistory
  IN  IF Len(newHistory) > MAX_HISTORY_ITEMS
        THEN SubSeq(newHistory, 1, MAX_HISTORY_ITEMS)
        ELSE newHistory

\* viewingHistory after addToHistory(videoId, ...) at Date.now() = timestamp
addToHistory(viewingHistory, videoId, timestamp) ==
  LET found == { k \in 1..Len(viewingHistory) : viewingHistory[k].videoId = videoId }
      existingIndex == CHOOSE k \in found : \A m \in found : k <= m
      others(k) == SubSeq(viewingHistory, 1, k - 1)
                     \o SubSeq(viewingHistory, k + 1, Len(viewingHistory))
      newHistory ==
        IF found # { }
          THEN << [ viewingHistory[existingIndex] EXCEPT !.timestamp = timestamp ] >>
                 \o others(existingIndex)
          ELSE << [ videoId |-> videoId, timestamp |-> timestamp ] >> \o viewingHistory
  IN  IF Len(newHistory) > MAX_HISTORY_ITEMS
        THEN SubSeq(newHistory, 1, MAX_HISTORY_ITEMS)
        ELSE newHistory

\* viewingHistory after updateProgress(videoId, ...) at Date.now() = timestamp
updateProgress(viewingHistory, videoId, timestamp) ==
  [ k \in 1..Len(viewingHistory) |->
      IF viewingHistory[k].videoId = videoId
        THEN [ viewingHistory[k] EXCEPT !.timestamp = timestamp ]
        ELSE viewingHistory[k] ]

\* viewingHistory after removeFromHistory(videoId, source)
removeFromHistory(viewingHistory, videoId) ==
  LET differs(item) == item.videoId # videoId IN SelectSeq(viewingHistory, differs)

(***************************************************************************)
(* doubanHot.ts: fetchDoubanHot. A subject is its id and its rate; a rate  *)
(* is a string, the number 0 ("number 0") or absent ("undefined"). Ratings *)
(* are counted in tenths.                                                  *)
(***************************************************************************)
MaxSubjects == 2

\* what fetch resolves with: ok and status, and what response.json() gives:
\* an object without subjects, one whose subjects is not an array, or one
\* with an array of subjects
DoubanResponses ==
  LET Subjects == [ id : { "7", "undefined" },
                    rate : { "undefined", "8.5", "abc", "Infinity", "number 0" } ]
      Arrays == UNION { [ 1..n -> Subjects ] : n \in 0..MaxSubjects }
      Bodies == { [ kind |-> "noSubjects", subjects |-> << >> ],
                  [ kind |-> "notArray", subjects |-> << >> ] }
                \cup { [ kind |-> "array", subjects |-> a ] : a \in Arrays }
  IN  { [ ok |-> TRUE, status |-> 200, body |-> b ] : b \in Bodies }
      \cup { [ ok |-> FALSE, status |-> 500, body |-> b ] : b \in Bodies }

\* Mutant of fetchDoubanHot: rank is the index.
fetchDoubanHotRankIndex(response) ==
  IF ~response.ok \/ response.body.kind # "array"
    THEN [ kind |-> "thrown", message |-> "error", items |-> << >> ]
  ELSE [ kind |-> "returned", message |-> "",
         items |-> [ k \in 1..Len(response.body.subjects) |->
                       [ id |-> response.body.subjects[k].id, rank |-> k - 1,
                         rating |-> JsonNull ] ] ]

\* Mutant of fetchDoubanHot: a response without subjects gives the empty list.
fetchDoubanHotEmptyOnInvalid(response) ==
  [ kind |-> "returned", message |-> "", items |-> << >> ]

\* how fetchDoubanHot() ends when fetch resolves with response
fetchDoubanHot(response) ==
  LET subjects == response.body.subjects
      Truthy(rate) == rate \notin { "undefined", "number 0" }
      \* Number(subject.rate)
      NumberOf(rate) == CASE rate = "8.5" -> [ finite |-> TRUE, tenths |-> 85 ]
                          [] OTHER        -> [ finite |-> FALSE, tenths |-> 0 ]
      Item(subject, index) ==
        [ id     |-> IF subject.id = "undefined" THEN ToString(index) ELSE subject.id,
          rank   |-> index + 1,
          rating |-> IF Truthy(subject.rate) /\ NumberOf(subject.rate).finite
                       THEN NumberOf(subject.rate).tenths ELSE JsonNull ]
  IN  IF ~response.ok
        THEN [ kind |-> "thrown", message |-> "Failed to fetch Douban hot list",
               items |-> << >> ]
      ELSE IF response.body.kind # "array"
        THEN [ kind |-> "thrown", message |-> "Invalid Douban hot response format",
               items |-> << >> ]
      ELSE [ kind |-> "returned", message |-> "",
             items |-> [ k \in 1..Len(subjects) |-> Item(subjects[k], k - 1) ] ]

(***************************************************************************)
(* progress-tracker.ts: saveProgress, shouldResumeProgress and             *)
(* createProgressSaver, for one video and source. Positions and durations  *)
(* are in seconds, times in units of the clock.                            *)
(***************************************************************************)
PROGRESS_SAVE_THRESHOLD == 10

RESUME_MIN_POSITION == 10

RESUME_MAX_REMAINING == 120

\* the saveInterval argument of createProgressSaver
SaveInterval == 2

\* the clock stops here
MaxSaverTime == 7

\* the position and duration arguments of the calls
SaveArgs ==
  { [ position |-> 5, duration |-> 100 ], [ position |-> 15, duration |-> 0 ],
    [ position |-> 15, duration |-> 200 ], [ position |-> 100, duration |-> 200 ] }

\* getProgress(videoId, source) = null: nothing is stored
NoProgress == [ position |-> -1, duration |-> -1, timestamp |-> -1 ]

\* Mutant of saveProgress: a video that is almost finished is saved like any other.
saveProgressNoClear(stored, position, duration, timestamp) ==
  IF position < PROGRESS_SAVE_THRESHOLD THEN stored
  ELSE [ position |-> position, duration |-> duration, timestamp |-> timestamp ]

\* what is stored after saveProgress(videoId, source, position, duration) at
\* Date.now() = timestamp
saveProgress(stored, position, duration, timestamp) ==
  IF position < PROGRESS_SAVE_THRESHOLD THEN stored
  ELSE IF duration > 0 /\ duration - position < RESUME_MAX_REMAINING THEN NoProgress
  ELSE [ position |-> position, duration |-> duration, timestamp |-> timestamp ]

shouldResumeProgress(progress) ==
  IF progress = NoProgress THEN FALSE
  ELSE IF progress.position < RESUME_MIN_POSITION THEN FALSE
  ELSE IF progress.duration > 0 /\ progress.duration - progress.position < RESUME_MAX_REMAINING
    THEN FALSE
  ELSE TRUE

(***************************************************************************)
(* history-store.ts: usePlayerStore. An episode is its url; currentVideo   *)
(* is its episodeIndex and url, or null.                                   *)
(***************************************************************************)
MaxEpisodes == 2

\* currentVideo: null
NoVideo == [ isNull |-> TRUE, episodeIndex |-> 0, url |-> "" ]

\* the store after nextEpisode() or prevEpisode() has computed the index it
\* moves to, and what the call returned: null, the episode, or a TypeError
\* thrown by `.url' of episodes[index] when that is undefined
MoveToEpisode(state, op, index) ==
  IF state.currentVideo.isNull \/ Len(state.episodes) = 0
    THEN [ state EXCEPT !.op = op, !.returned = "null" ]
  ELSE IF (op = "nextEpisode" /\ index >= Len(state.episodes))
          \/ (op = "prevEpisode" /\ index < 0)
    THEN [ state EXCEPT !.op = op, !.returned = "null" ]
  ELSE IF index + 1 \notin 1..Len(state.episodes)
    THEN [ state EXCEPT !.op = op, !.returned = "TypeError" ]
  ELSE [ state EXCEPT !.currentVideo = [ @ EXCEPT !.episodeIndex = index,
                                                  !.url = state.episodes[index + 1] ],
                      !.playbackPosition = 0,
                      !.op = op, !.returned = "episode" ]

nextEpisode(state) == MoveToEpisode(state, "nextEpisode", state.currentVideo.episodeIndex + 1)

prevEpisode(state) == MoveToEpisode(state, "prevEpisode", state.currentVideo.episodeIndex - 1)

(***************************************************************************)
(* error-handler.ts: retryWithBackoff.                                     *)
(***************************************************************************)
\* the arguments (maxRetries, initialDelay): the defaults, and a shorter call
BackoffArgs ==
  { [ maxRetries |-> 3, initialDelay |-> 1000 ], [ maxRetries |-> 1, initialDelay |-> 500 ] }

\* Mutant of Delay: the delay grows by initialDelay each time.
DelayLinear(initialDelay, i) == initialDelay * (i + 1)

\* initialDelay * Math.pow(2, i)
Delay(initialDelay, i) == initialDelay * 2 ^ i

(***************************************************************************)
(* State.                                                                 *)
(***************************************************************************)
VARIABLES
  content,       \* the lines of the text last passed to filterM3U8Playlist
  baseUrl,       \* the baseUrl argument of that call
  parsed,        \* { header, segments } of that call
  filtered,      \* the lines of the text it returned
  now,           \* Date.now()
  racePc,        \* testAllSources: "idle", "racing" (awaiting Promise.all),
                 \* "done" (returned) or "failed" (rejected)
  startTime,     \* startTime of the testSourceSpeed calls
  currentSource, \* the currentSource argument
  probe,         \* per source: the testSourceSpeed call
  raceResult,    \* per source: what its Promise.race settled with
  timerFired,    \* per source: whether its deadline timer has run
  ranked,        \* the array testAllSources returned
  selectCall,    \* the last call of findBestSource or shouldSwitchSource:
                 \* its arguments and what it returned
  storage,       \* the item SPEED_TEST_CACHE_KEY of localStorage, parsed
  dateNow,       \* Date.now() as the cache reads it
  cacheCall,     \* the last call of getCachedSpeedTest or setCachedSpeedTest
                 \* that returned: its arguments, locals and return value
  tabPc,         \* per window: "idle", or "write" between the getItem and the
                 \* setItem of its setCachedSpeedTest call
  tabTitle,      \* per window: the videoTitle of that call
  tabItem,       \* per window: the object that call is about to store
  tabDone,       \* per window: the videoTitle of its last call that returned
  hlsCall,       \* the last call of handleHLSError: its arguments and what it
                 \* returned
  sessionState,  \* the playback session: "Playing", "RecoveringNetwork",
                 \* "RecoveringMedia" or "Fatal"
  networkRetries, \* the retries the session has issued for network faults
  mediaRetries,  \* the retries the session has issued for media faults
  backoff,       \* the retryWithBackoff call: its locals, the clock and what
                 \* fn did
  patternStore,  \* the item CUSTOM_AD_PATTERNS_KEY of localStorage, parsed, and
                 \* the last call that changed or kept it
  history,       \* useHistoryStore: viewingHistory, the calls made so far and
                 \* the last call
  douban,        \* the last call of fetchDoubanHot: the response fetch gave and how
                 \* the call ended
  tracker,       \* progress-tracker.ts: the stored progress of one video and source,
                 \* the locals and the timers of one createProgressSaver closure,
                 \* the clock and the saveProgress invocations so far
  player         \* usePlayerStore: currentVideo, episodes, playbackPosition, and the
                 \* last call with what it returned

filterVars == << content, baseUrl, parsed, filtered >>

raceVars == << now, racePc, startTime, currentSource, probe, raceResult, timerFired, ranked >>

selectVars == << selectCall >>

tabVars == << tabPc, tabTitle, tabItem, tabDone >>

cacheVars == << storage, dateNow, cacheCall, tabVars >>

sessionVars == << sessionState, networkRetries, mediaRetries >>

hlsVars == << hlsCall, sessionVars >>

vars == << content, baseUrl, parsed, filtered, now, racePc, startTime, currentSource, probe,
           raceResult, timerFired, ranked, selectCall, storage, dateNow, cacheCall, tabPc,
           tabTitle, tabItem, tabDone, hlsCall, sessionState, networkRetries, mediaRetries,
           backoff, patternStore, history, douban, tracker, player >>

\* the variables of the parts above, and those of the parts below
coreVars == << filterVars, raceVars, selectVars, cacheVars, hlsVars >>

laterVars == << backoff, patternStore, history, douban, tracker, player >>

\* what playlist filtering, the speed test, the selection, the cache and the
\* error handling leave alone
filterRest == << raceVars, selectVars, cacheVars, hlsVars, laterVars >>

raceRest == << filterVars, selectVars, cacheVars, hlsVars, laterVars >>

selectRest == << filterVars, raceVars, cacheVars, hlsVars, laterVars >>

cacheRest == << filterVars, raceVars, selectVars, hlsVars, laterVars >>

hlsRest == << filterVars, raceVars, selectVars, cacheVars, laterVars >>

(***************************************************************************)
(* Playlist filtering.                                                     *)
(***************************************************************************)
FilterInit ==
  /\ content = << >>
  /\ baseUrl = ""
  /\ parsed = [ header |-> << >>, segments |-> << >> ]
  /\ filtered = << >>

\* filterM3U8Playlist(content, url) is called on a playlist text: the first
\* text of a url, or the last one grown by a line (a live playlist).
FilterPlaylist(url, line) ==
  /\ Len(content) < MaxLines
  /\ content = << >> \/ url = baseUrl
  /\ baseUrl' = url
  /\ content' = Append(content, line)
  /\ parsed' = parseM3U8(content', url)
  /\ filtered' = FilterParsed(parsed')
  /\ UNCHANGED filterRest

FilterNext == \E url \in BaseUrls : \E line \in InputLines : FilterPlaylist(url, line)

(***************************************************************************)
(* The speed test.                                                         *)
(***************************************************************************)
IdleProbe == [ pc |-> "idle", urlTestStartTime |-> 0, result |-> NoResult ]

RaceInit ==
  /\ now = 0
  /\ racePc = "idle"
  /\ startTime = 0
  /\ currentSource = ""
  /\ probe = [ s \in SourceIds |-> IdleProbe ]
  /\ raceResult = [ s \in SourceIds |-> NoResult ]
  /\ timerFired = [ s \in SourceIds |-> FALSE ]
  /\ ranked = << >>

RaceDeadline == startTime + SPEED_TEST_TIMEOUT

\* The continuation of `await Promise.all(testPromises)': it runs as soon as
\* the last race promise is settled (or one is rejected), before any timer or
\* network callback, sorts and returns.
AwaitAll(race) ==
  IF racePc # "racing" THEN
    /\ UNCHANGED << racePc, ranked >>
  ELSE IF \E s \in SourceIds : race[s].source = "rejected" THEN
    /\ racePc' = "failed"
    /\ UNCHANGED ranked
  ELSE IF \A s \in SourceIds : race[s] # NoResult THEN
    /\ racePc' = "done"
    /\ ranked' = SortResults([ k \in 1..Len(Sources) |-> race[Sources[k]] ], currentSource)
  ELSE
    /\ UNCHANGED << racePc, ranked >>

\* testAllSources(videoTitle, sources, currentSource) up to its await: every
\* testSourceSpeed call has started its search, every deadline timer is set.
Start(cur) ==
  /\ racePc = "idle"
  /\ now + SPEED_TEST_TIMEOUT <= MaxTime
  /\ racePc' = "racing"
  /\ startTime' = now
  /\ currentSource' = cur
  /\ probe' = [ s \in SourceIds |-> [ IdleProbe EXCEPT !.pc = "search" ] ]
  /\ UNCHANGED << now, raceResult, timerFired, ranked >>
  /\ UNCHANGED raceRest

\* The testSourceSpeed call of s moves to state p; when that settles it, its
\* race promise and the await of testAllSources follow.
ProbeMoves(s, p) ==
  /\ probe' = [ probe EXCEPT ![s] = p ]
  /\ IF p.pc \in { "returned", "rejected" }
       THEN /\ raceResult' = RaceAfterProbe(raceResult, s, p)
            /\ AwaitAll(raceResult')
       ELSE UNCHANGED << raceResult, racePc, ranked >>
  /\ UNCHANGED << now, startTime, currentSource, timerFired >>
  /\ UNCHANGED raceRest

\* `await searchVideos(videoTitle, [source])' settles.
SearchDone(s, outcome) ==
  /\ probe[s].pc = "search"
  /\ ProbeMoves(s, CASE outcome = "throw" -> OnThrow(probe[s], s, "Network error")
                     [] outcome = "empty" -> OnReturn(probe[s], NotFoundResult(s))
                     [] OTHER             -> [ probe[s] EXCEPT !.pc = "detail" ])

\* Mutant of DetailDone: the detail record is fetched without awaiting the search.
DetailDoneUnawaited(s, outcome) ==
  /\ probe[s].pc \in { "search", "detail" }
  /\ ProbeMoves(s, CASE outcome = "throw"      -> OnThrow(probe[s], s, "Network error")
                     [] outcome = "noEpisodes" -> OnReturn(probe[s], NoEpisodesResult(s))
                     [] OTHER -> [ probe[s] EXCEPT !.pc = "urltest", !.urlTestStartTime = now ])

\* `await getVideoDetail(firstResult.vod_id, source)' settles.
DetailDone(s, outcome) ==
  /\ probe[s].pc = "detail"
  /\ ProbeMoves(s, CASE outcome = "throw"      -> OnThrow(probe[s], s, "Network error")
                     [] outcome = "noEpisodes" -> OnReturn(probe[s], NoEpisodesResult(s))
                     [] OTHER -> [ probe[s] EXCEPT !.pc = "urltest", !.urlTestStartTime = now ])

\* testVideoUrl(firstEpisodeUrl) settles before the 5 s timer of the inner race.
UrlTestDone(s, outcome) ==
  /\ probe[s].pc = "urltest"
  /\ ProbeMoves(s, CASE outcome = "throw"      -> OnThrow(probe[s], s, "Network error")
                     [] outcome = "accessible" ->
                          OnReturn(probe[s], AvailableResult(s, now - startTime))
                     [] OTHER -> OnReturn(probe[s], NotAccessibleResult(s)))

\* The 5 s timer of the inner race resolves it with false.
UrlTestTimer(s) ==
  /\ probe[s].pc = "urltest"
  /\ now >= probe[s].urlTestStartTime + URL_TEST_TIMEOUT
  /\ ProbeMoves(s, OnReturn(probe[s], NotAccessibleResult(s)))

\* The deadline timer of source s runs.
DeadlineTimer(s) ==
  /\ racePc # "idle"
  /\ ~timerFired[s]
  /\ now >= RaceDeadline
  /\ timerFired' = [ timerFired EXCEPT ![s] = TRUE ]
  /\ raceResult' = RaceAfterTimer(raceResult, s)
  /\ AwaitAll(raceResult')
  /\ UNCHANGED << now, startTime, currentSource, probe >>
  /\ UNCHANGED raceRest

\* The times at which a timer that is set and has not run is due.
PendingTimers ==
  { RaceDeadline : s \in { x \in SourceIds : racePc # "idle" /\ ~timerFired[x] } }
  \cup { probe[s].urlTestStartTime + URL_TEST_TIMEOUT :
           s \in { x \in SourceIds : probe[x].pc = "urltest" } }

Min(S) == CHOOSE x \in S : \A y \in S : x <= y

\* Time passes.  A timer runs when it is due: the clock does not pass the due
\* time of a timer that has not run.
Tick ==
  /\ racePc # "idle"
  /\ \A t \in PendingTimers : now < t
  /\ now + TickStep <= MaxTime
  /\ now' = Min({ now + TickStep } \cup PendingTimers)
  /\ UNCHANGED << racePc, startTime, currentSource, probe, raceResult, timerFired, ranked >>
  /\ UNCHANGED raceRest

\* The steps of a speed test whose currentSource argument is drawn from args.
RaceNextWith(args) ==
  \/ \E cur \in args : Start(cur)
  \/ \E s \in SourceIds : \E outcome \in { "throw", "empty", "found" } : SearchDone(s, outcome)
  \/ \E s \in SourceIds : \E outcome \in { "throw", "noEpisodes", "episodes" } :
       DetailDone(s, outcome)
  \/ \E s \in SourceIds : \E outcome \in { "throw", "accessible", "notAccessible" } :
       UrlTestDone(s, outcome)
  \/ \E s \in SourceIds : UrlTestTimer(s)
  \/ \E s \in SourceIds : DeadlineTimer(s)
  \/ Tick

RaceNext == RaceNextWith(CurrentSourceArgs)

(***************************************************************************)
(* The selection of a source from the results of a speed test.             *)
(***************************************************************************)
NoCall ==
  [ fn |-> "", results |-> << >>, currentResult |-> NullResult, bestResult |-> NullResult,
    returned |-> NullResult, returnedSwitch |-> FALSE ]

SelectInit == selectCall = NoCall

FindBest(results) ==
  /\ selectCall' = [ NoCall EXCEPT !.fn = "findBestSource", !.results = results,
                                   !.returned = findBestSource(results) ]
  /\ UNCHANGED selectRest

CheckSwitch(currentResult, bestResult) ==
  /\ selectCall' = [ NoCall EXCEPT !.fn = "shouldSwitchSource",
                                   !.currentResult = currentResult,
                                   !.bestResult = bestResult,
                                   !.returnedSwitch =
                                     shouldSwitchSource(currentResult, bestResult) ]
  /\ UNCHANGED selectRest

SelectNext ==
  \/ \E results \in ResultArrays : FindBest(results)
  \/ \E currentResult \in ResultsOf(Sources[1]) :
       \E bestResult \in ResultsOf(Sources[2]) : CheckSwitch(currentResult, bestResult)

(***************************************************************************)
(* The speed-test cache in one window: a call runs to completion.          *)
(***************************************************************************)
Windows == { "w1", "w2" }

NoEntry == [ title |-> 0, results |-> << >>, timestamp |-> 0 ]

NoCacheCall ==
  [ op |-> "", title |-> 0, results |-> << >>, cached |-> NoEntry, at |-> 0,
    returned |-> NullResults ]

CacheInit ==
  /\ storage = << >>
  /\ dateNow = 0
  /\ cacheCall = NoCacheCall
  /\ tabPc = [ w \in Windows |-> "idle" ]
  /\ tabTitle = [ w \in Windows |-> 0 ]
  /\ tabItem = [ w \in Windows |-> << >> ]
  /\ tabDone = [ w \in Windows |-> 0 ]

\* the entry cache[videoTitle], NoEntry for undefined
Cached(cache, videoTitle) ==
  IF KeyIndex(cache, videoTitle) = 0 THEN NoEntry ELSE cache[KeyIndex(cache, videoTitle)]

GetCached(videoTitle) ==
  /\ cacheCall' = [ NoCacheCall EXCEPT !.op = "get", !.title = videoTitle,
                                       !.cached = Cached(storage, videoTitle),
                                       !.at = dateNow,
                                       !.returned =
                                         getCachedSpeedTest(storage, videoTitle, dateNow) ]
  /\ UNCHANGED << storage, dateNow, tabVars >>
  /\ UNCHANGED cacheRest

SetCached(videoTitle, results) ==
  /\ storage' = NewCache(storage, videoTitle, results, dateNow)
  /\ cacheCall' = [ NoCacheCall EXCEPT !.op = "set", !.title = videoTitle,
                                       !.results = results,
                                       !.cached = Cached(storage, videoTitle),
                                       !.at = dateNow ]
  /\ UNCHANGED << dateNow, tabVars >>
  /\ UNCHANGED cacheRest

\* time passes
CacheTick(t) ==
  /\ t > dateNow
  /\ dateNow' = t
  /\ UNCHANGED << storage, cacheCall, tabVars >>
  /\ UNCHANGED cacheRest

\* the titles a call is made for in the small cache
FewTitles == { 1, 2 }

CacheNext ==
  \/ \E videoTitle \in FewTitles : GetCached(videoTitle)
  \/ \E videoTitle \in FewTitles : \E results \in ResultsArgs : SetCached(videoTitle, results)
  \/ \E t \in ClockTimes : CacheTick(t)

\* the least title that has no entry, 0 when every title has one
NextTitle ==
  LET free == { t \in Titles : KeyIndex(storage, t) = 0 }
  IN  IF free = { } THEN 0 ELSE CHOOSE t \in free : \A u \in free : t <= u

\* The cache filling up: results are stored for a title that has no entry, or
\* again for the first title.
CacheFullNext ==
  \/ NextTitle # 0 /\ SetCached(NextTitle, << AvailableResult("A", 500) >>)
  \/ KeyIndex(storage, 1) # 0 /\ SetCached(1, << TimeoutResult("A") >>)
  \/ \E t \in { 1, CACHE_DURATION } : CacheTick(t)

(***************************************************************************)
(* The speed-test cache shared by two windows of the same origin.  Inside  *)
(* a window setCachedSpeedTest runs to completion; localStorage has no     *)
(* lock, so another window can read or write the item between the getItem  *)
(* and the setItem of a call.                                              *)
(***************************************************************************)
\* setCachedSpeedTest in window w, from its start to the argument of setItem
TabSetBegin(w, videoTitle, results) ==
  /\ tabPc[w] = "idle"
  /\ tabPc' = [ tabPc EXCEPT ![w] = "write" ]
  /\ tabTitle' = [ tabTitle EXCEPT ![w] = videoTitle ]
  /\ tabItem' = [ tabItem EXCEPT ![w] = NewCache(storage, videoTitle, results, dateNow) ]
  /\ UNCHANGED << storage, dateNow, cacheCall, tabDone >>
  /\ UNCHANGED cacheRest

\* localStorage.setItem and the return of the call
TabSetEnd(w) ==
  /\ tabPc[w] = "write"
  /\ storage' = tabItem[w]
  /\ tabPc' = [ tabPc EXCEPT ![w] = "idle" ]
  /\ tabDone' = [ tabDone EXCEPT ![w] = tabTitle[w] ]
  /\ UNCHANGED << dateNow, cacheCall, tabTitle, tabItem >>
  /\ UNCHANGED cacheRest

TabsNext ==
  \/ \E w \in Windows : \E videoTitle \in FewTitles :
       TabSetBegin(w, videoTitle, << AvailableResult("A", 500) >>)
  \/ \E w \in Windows : TabSetEnd(w)
  \/ \E videoTitle \in FewTitles : GetCached(videoTitle)
  \/ \E t \in { 1 } : CacheTick(t)

(***************************************************************************)
(* HLS error handling: single calls of handleHLSError, and a playback      *)
(* session that passes the number of retries it has issued for the class   *)
(* of the fault and follows the answers (RecoveryStateMachine of the       *)
(* specification).                                                         *)
(***************************************************************************)
NoHlsCall ==
  [ called |-> FALSE,
    errorData |-> [ type |-> "", details |-> "", fatal |-> FALSE ],
    retryCount |-> 0,
    returned |-> [ shouldRetry |-> FALSE, action |-> "",
                   error |-> createVideoError("", "", FALSE) ] ]

HlsInit ==
  /\ hlsCall = NoHlsCall
  /\ sessionState = "Playing"
  /\ networkRetries = 0
  /\ mediaRetries = 0

HlsCallOf(errorData, retryCount) ==
  [ called |-> TRUE, errorData |-> errorData, retryCount |-> retryCount,
    returned |-> handleHLSError(errorData, retryCount) ]

HandleError(errorData, retryCount) ==
  /\ hlsCall' = HlsCallOf(errorData, retryCount)
  /\ UNCHANGED sessionVars
  /\ UNCHANGED hlsRest

HlsNext ==
  \E errorData \in ErrorDataArgs : \E retryCount \in 0..MaxRetryCount :
     HandleError(errorData, retryCount)

\* the state the session enters on an answer of handleHLSError
StateAfter(returned) ==
  CASE returned.action = "startLoad"    -> "RecoveringNetwork"
    [] returned.action = "recoverMedia" -> "RecoveringMedia"
    [] OTHER                            -> "Fatal"

\* Mutant of CountPassed: one counter for every fault class.
CountPassedShared(errorData) == networkRetries + mediaRetries

\* the retry count the session passes: the counter of the fault's class
CountPassed(errorData) ==
  IF errorData.type = "networkError" THEN networkRetries ELSE mediaRetries

\* a fault of the live stream: the session asks handleHLSError, passing the
\* number of retries it has issued for the fault's class, and applies the
\* answer
SessionFault(errorData) ==
  /\ sessionState # "Fatal"
  /\ mediaRetries < MaxRetryCount
  /\ hlsCall' = HlsCallOf(errorData, CountPassed(errorData))
  /\ sessionState' = StateAfter(hlsCall'.returned)
  /\ networkRetries' = IF errorData.type = "networkError" /\ hlsCall'.returned.shouldRetry
                       THEN networkRetries + 1
                       ELSE networkRetries
  /\ mediaRetries' = IF errorData.type # "networkError" /\ hlsCall'.returned.shouldRetry
                     THEN mediaRetries + 1
                     ELSE mediaRetries
  /\ UNCHANGED hlsRest

\* the recovery action succeeded
Recovered ==
  /\ sessionState \in { "RecoveringNetwork", "RecoveringMedia" }
  /\ sessionState' = "Playing"
  /\ UNCHANGED << hlsCall, networkRetries, mediaRetries >>
  /\ UNCHANGED hlsRest

\* a new session or episode starts
NewSession ==
  /\ hlsCall # NoHlsCall
  /\ hlsCall' = NoHlsCall
  /\ sessionState' = "Playing"
  /\ networkRetries' = 0
  /\ mediaRetries' = 0
  /\ UNCHANGED hlsRest

SessionNext ==
  \/ \E errorData \in ErrorDataArgs : SessionFault(errorData)
  \/ Recovered
  \/ NewSession

(***************************************************************************)
(* retryWithBackoff(fn, maxRetries, initialDelay).  pc is "idle", "calling" *)
(* (awaiting fn()), "waiting" (awaiting the setTimeout promise), "returned" *)
(* or "thrown"; calls, calledAt, failedWith and failedAt are what fn saw    *)
(* and did.                                                                *)
(***************************************************************************)
IdleBackoff ==
  [ pc |-> "idle", args |-> [ maxRetries |-> 0, initialDelay |-> 0 ], i |-> 0, now |-> 0,
    timerAt |-> 0, lastError |-> "", outcome |-> "", calls |-> 0, calledAt |-> 0,
    failedWith |-> "", failedAt |-> 0 ]

BackoffStart(args) ==
  /\ backoff.pc = "idle"
  /\ backoff' = [ backoff EXCEPT !.pc = "calling", !.args = args, !.i = 0, !.calls = 1,
                                 !.calledAt = backoff.now ]
  /\ UNCHANGED << coreVars, patternStore, history, douban, tracker, player >>

\* fn() settles: it resolves with a value, or rejects with error and the catch
\* block runs
FnSettles(error) ==
  /\ backoff.pc = "calling"
  /\ backoff' =
       IF error = "" THEN [ backoff EXCEPT !.pc = "returned", !.outcome = "value" ]
       ELSE IF backoff.i < backoff.args.maxRetries
       THEN [ backoff EXCEPT !.pc = "waiting", !.lastError = error,
                             !.timerAt = backoff.now
                                         + Delay(backoff.args.initialDelay, backoff.i),
                             !.failedWith = error, !.failedAt = backoff.now ]
       ELSE [ backoff EXCEPT !.pc = "thrown", !.lastError = error, !.outcome = error,
                             !.failedWith = error, !.failedAt = backoff.now ]
  /\ UNCHANGED << coreVars, patternStore, history, douban, tracker, player >>

\* the setTimeout callback resolves the promise: the next iteration calls fn
BackoffTimer ==
  /\ backoff.pc = "waiting"
  /\ backoff.now = backoff.timerAt
  /\ backoff' = [ backoff EXCEPT !.pc = "calling", !.i = @ + 1, !.calls = @ + 1,
                                 !.calledAt = backoff.now ]
  /\ UNCHANGED << coreVars, patternStore, history, douban, tracker, player >>

\* time passes, up to the timer when one is set
BackoffTick ==
  /\ backoff.pc \in { "calling", "waiting" }
  /\ LET next == IF backoff.pc = "waiting" /\ backoff.timerAt < backoff.now + TickStep
                 THEN backoff.timerAt ELSE backoff.now + TickStep
     IN  /\ next > backoff.now
         /\ next <= MaxTime
         /\ backoff' = [ backoff EXCEPT !.now = next ]
  /\ UNCHANGED << coreVars, patternStore, history, douban, tracker, player >>

BackoffNext ==
  \/ \E args \in BackoffArgs : BackoffStart(args)
  \/ \E error \in { "", "E1", "E2" } : FnSettles(error)
  \/ BackoffTimer
  \/ BackoffTick

\* addCustomAdPattern(pattern) or removeCustomAdPattern(pattern)
PatternCall(op, pattern) ==
  /\ patternStore' =
       [ patterns |-> IF op = "add" THEN addCustomAdPattern(patternStore.patterns, pattern)
                      ELSE removeCustomAdPattern(patternStore.patterns, pattern),
         op |-> op, pattern |-> pattern ]
  /\ UNCHANGED << coreVars, backoff, history, douban, tracker, player >>

PatternsNext ==
  \E op \in { "add", "remove" } : \E pattern \in CustomPatterns : PatternCall(op, pattern)

\* playlists are filtered while the pattern "seg1" is added and removed
PatternsFilterNext ==
  \/ \E op \in { "add", "remove" } : PatternCall(op, "seg1")
  \/ FilterNext

\* One call of the store at Date.now() = the number of the call. The video is
\* a new one (named by the number of the call) or the one at the end of the
\* list.
HistoryCall(op, videoId) ==
  LET items == history.viewingHistory
      timestamp == history.calls + 1
      isNew == op = "addToHistory" /\ videoId = timestamp
  IN  /\ history.calls < MaxCalls
      /\ isNew \/ history.others < MaxOtherCalls
      /\ videoId = timestamp \/ (items # << >> /\ videoId = items[Len(items)].videoId)
      /\ history' =
           [ viewingHistory |->
               CASE op = "addToHistory"      -> addToHistory(items, videoId, timestamp)
                 [] op = "updateProgress"    -> updateProgress(items, videoId, timestamp)
                 [] op = "removeFromHistory" -> removeFromHistory(items, videoId)
                 [] op = "clearHistory"      -> << >>,
             calls  |-> timestamp,
             others |-> IF isNew THEN history.others ELSE history.others + 1,
             op |-> op, videoId |-> videoId ]
      /\ UNCHANGED << coreVars, backoff, patternStore, douban, tracker, player >>

HistoryNext ==
  \E op \in { "addToHistory", "updateProgress", "removeFromHistory", "clearHistory" } :
    \E videoId \in 1..MaxCalls : HistoryCall(op, videoId)

\* the tracker after saveProgress(..., args.position, args.duration) is invoked
Saved(args) ==
  [ tracker EXCEPT
      !.stored = saveProgress(tracker.stored, args.position, args.duration, tracker.now),
      !.saves = @ + 1, !.savedAt = tracker.now, !.saved = args ]

\* Mutant of SaverCall: the pending save is not cleared.
SaverCallKeepsPending(args) ==
  IF tracker.now - tracker.lastSaveTime >= SaveInterval
    THEN /\ tracker' = [ Saved(args) EXCEPT !.lastSaveTime = tracker.now ]
         /\ UNCHANGED << coreVars, backoff, patternStore, history, douban, player >>
    ELSE /\ tracker' = [ tracker EXCEPT
                           !.pendingSave = tracker.now,
                           !.timers = @ \cup { [ id |-> tracker.now,
                                                  due |-> tracker.lastSaveTime + SaveInterval,
                                                  args |-> args ] } ]
         /\ UNCHANGED << coreVars, backoff, patternStore, history, douban, player >>

\* a call of the function createProgressSaver returned
SaverCall(args) ==
  LET cleared == { timer \in tracker.timers : timer.id # tracker.pendingSave }
  IN  IF tracker.now - tracker.lastSaveTime >= SaveInterval
        THEN /\ tracker' = [ Saved(args) EXCEPT !.lastSaveTime = tracker.now,
                                                !.timers = cleared ]
             /\ UNCHANGED << coreVars, backoff, patternStore, history, douban, player >>
        ELSE /\ tracker' = [ tracker EXCEPT
                               !.pendingSave = tracker.now,
                               !.timers = cleared \cup
                                          { [ id |-> tracker.now,
                                              due |-> tracker.lastSaveTime + SaveInterval,
                                              args |-> args ] } ]
             /\ UNCHANGED << coreVars, backoff, patternStore, history, douban, player >>

\* the callback of a scheduled save runs, when it is due or later
SaverTimer ==
  /\ \E timer \in tracker.timers :
       /\ tracker.now >= timer.due
       /\ tracker' = [ Saved(timer.args) EXCEPT !.lastSaveTime = tracker.now,
                                                !.timers = @ \ { timer } ]
  /\ UNCHANGED << coreVars, backoff, patternStore, history, douban, player >>

SaverTick ==
  /\ tracker.now < MaxSaverTime
  /\ tracker' = [ tracker EXCEPT !.now = @ + 1 ]
  /\ UNCHANGED << coreVars, backoff, patternStore, history, douban, player >>

ProgressNext ==
  \/ \E args \in SaveArgs : SaverCall(args)
  \/ SaverTimer
  \/ SaverTick

\* one call of the player store: setVideo(video) with an episodeIndex and the
\* url "v", setEpisodes(episodes), updatePosition(30), nextEpisode() or
\* prevEpisode()
PlayerCall(op, episodeIndex, episodes) ==
  /\ player' =
       CASE op = "setVideo" ->
              [ player EXCEPT !.currentVideo = [ isNull |-> FALSE,
                                                 episodeIndex |-> episodeIndex, url |-> "v" ],
                              !.playbackPosition = 0, !.op = op, !.returned = "" ]
         [] op = "setEpisodes" ->
              [ player EXCEPT !.episodes = episodes, !.op = op, !.returned = "" ]
         [] op = "updatePosition" ->
              [ player EXCEPT !.playbackPosition = 30, !.op = op, !.returned = "" ]
         [] op = "nextEpisode" -> nextEpisode(player)
         [] op = "prevEpisode" -> prevEpisode(player)
  /\ UNCHANGED << coreVars, backoff, patternStore, history, douban, tracker >>

PlayerNext ==
  \E op \in { "setVideo", "setEpisodes", "updatePosition", "nextEpisode", "prevEpisode" } :
    \E episodeIndex \in 0..MaxEpisodes :
      \E episodes \in UNION { [ 1..n -> { "a", "b" } ] : n \in 0..MaxEpisodes } :
        PlayerCall(op, episodeIndex, episodes)

\* one call of fetchDoubanHot()
FetchDoubanHot ==
  /\ \E response \in DoubanResponses :
       douban' = [ response |-> response, outcome |-> fetchDoubanHot(response) ]
  /\ UNCHANGED << coreVars, backoff, patternStore, history, tracker, player >>

Init ==
  /\ FilterInit /\ RaceInit /\ SelectInit /\ CacheInit /\ HlsInit
  /\ backoff = IdleBackoff
  /\ patternStore = [ patterns |-> << >>, op |-> "", pattern |-> "" ]
  /\ history = [ viewingHistory |-> << >>, calls |-> 0, others |-> 0, op |-> "", videoId |-> 0 ]
  /\ douban = [ response |-> [ ok |-> TRUE, status |-> 200,
                               body |-> [ kind |-> "array", subjects |-> << >> ] ],
                 outcome  |-> [ kind |-> "none", message |-> "", items |-> << >> ] ]
  /\ tracker = [ stored |-> NoProgress, lastSaveTime |-> 0, pendingSave |-> -1,
                  timers |-> { }, now |-> SaveInterval, saves |-> 0, savedAt |-> -1,
                  saved |-> [ position |-> 0, duration |-> 0 ] ]
  /\ player = [ currentVideo |-> NoVideo, episodes |-> << >>, playbackPosition |-> 0,
                 op |-> "", returned |-> "" ]

SpecBackoff == Init /\ [][BackoffNext]_vars

SpecPlayer == Init /\ [][PlayerNext]_vars

SpecProgress == Init /\ [][ProgressNext]_vars

SpecDouban == Init /\ [][FetchDoubanHot]_vars

SpecHistory == Init /\ [][HistoryNext]_vars

SpecPatterns == Init /\ [][PatternsNext]_vars

SpecPatternsFilter == Init /\ [][PatternsFilterNext]_vars

SpecHls == Init /\ [][HlsNext]_vars

SpecSession == Init /\ [][SessionNext]_vars

SpecCacheTabs == Init /\ [][TabsNext]_vars

SpecCache == Init /\ [][CacheNext]_vars

SpecCacheFull == Init /\ [][CacheFullNext]_vars

SpecSelect == Init /\ [][SelectNext]_vars

SpecFilter == Init /\ [][FilterNext]_vars

SpecRace == Init /\ [][RaceNext]_vars

\* A timer callback of the event loop runs.
TimerRuns == \E s \in SourceIds : DeadlineTimer(s) \/ UrlTestTimer(s)

\* Time passes and, while a timer is due, a timer callback runs; nothing makes
\* a network request ever settle.  The currentSource argument, which is read
\* only by the sort that follows the await, is not supplied.
SpecRaceFair ==
  /\ Init
  /\ [][RaceNextWith({ "" })]_vars
  /\ WF_vars(Tick)
  /\ WF_vars(TimerRuns)

(***************************************************************************)
(* What the claims read off a playlist text.                               *)
(***************************************************************************)
Loaded == content # << >>

IsUriLine(l) == Trim(l) # "" /\ ~StartsWith(Trim(l), "#")

IsDiscontinuityLine(l) == Includes(Trim(l), "DISCONTINUITY")

\* The segments of the playlist, as parseM3U8 found them.
InputSegments == parsed.segments

IsAdOf(segment) == isAdSegment(resolveUrl(segment.url, baseUrl))

IsNotAdOf(segment) == ~IsAdOf(segment)

UrlAndDuration(segments) ==
  [ k \in 1..Len(segments) |-> [ url |-> segments[k].url, duration |-> segments[k].duration ] ]

\* The (url, duration) pairs a player reads off a text: every URI line, with
\* the duration of the last #EXTINF line before it.
RECURSIVE ReadSegments(_, _, _)
ReadSegments(lines, i, duration) ==
  IF i > Len(lines) THEN << >>
  ELSE IF StartsWith(Trim(lines[i]), "#EXTINF")
    THEN ReadSegments(lines, i + 1, ExtinfDuration(Trim(lines[i])))
  ELSE IF IsUriLine(lines[i])
    THEN << [ url |-> Trim(lines[i]), duration |-> duration ] >>
         \o ReadSegments(lines, i + 1, -1)
  ELSE ReadSegments(lines, i + 1, duration)

RECURSIVE SumDurations(_)
SumDurations(segments) ==
  IF segments = << >> THEN 0 ELSE Head(segments).duration + SumDurations(Tail(segments))

SegmentCount(text) == Len(parseM3U8(text, baseUrl).segments)

TotalDuration(text) == SumDurations(parseM3U8(text, baseUrl).segments)

\* The positions of the URI lines of a text, in order.
RECURSIVE UriPositions(_, _)
UriPositions(lines, i) ==
  IF i > Len(lines) THEN << >>
  ELSE IF IsUriLine(lines[i]) THEN << i >> \o UriPositions(lines, i + 1)
  ELSE UriPositions(lines, i + 1)

\* The number of discontinuity markers the filtered text holds for its k-th
\* segment: those between the previous URI line (or the header) and its own.
MarkersBefore(k) ==
  LET pos   == UriPositions(filtered, 1)
      first == IF k = 1 THEN Len(parsed.header) + 1 ELSE pos[k - 1] + 1
  IN  Cardinality({ i \in first..(pos[k] - 1) : IsDiscontinuityLine(filtered[i]) })

\* The indices of the input segments that are retained and immediately follow
\* a removed segment.
RetainedAfterAd ==
  { j \in 2..Len(InputSegments) : IsNotAdOf(InputSegments[j]) /\ IsAdOf(InputSegments[j - 1]) }

\* The index, among the retained segments, of input segment j.
RetainedIndex(j) == Cardinality({ i \in 1..j : IsNotAdOf(InputSegments[i]) })

(***************************************************************************)
(* C1: filtering the output of filterM3U8Playlist again, with the same     *)
(* base URL, yields the same text.                                         *)
(***************************************************************************)
C1_Idempotence == Loaded => filterM3U8Playlist(filtered, baseUrl) = filtered

(***************************************************************************)
(* C2: in the output, every retained segment that immediately follows one  *)
(* or more removed segments has exactly one discontinuity marker before it.*)
(***************************************************************************)
C2_DiscontinuityAfterRemoval ==
  Loaded => \A j \in RetainedAfterAd : MarkersBefore(RetainedIndex(j)) = 1

C4_NeverGrows ==
  Loaded =>
    LET input  == InputSegments
        output == parseM3U8(filtered, baseUrl).segments
    IN  /\ Len(output) <= Len(input)
        /\ SumDurations(output) <= SumDurations(input)
        /\ Len(UriPositions(filtered, 1)) <= Len(input)

\* a playlist that loses a segment and its duration
C4_Witness ==
  /\ Len(InputSegments) = 2
  /\ SegmentCount(filtered) = 1
  /\ SumDurations(InputSegments) = 6
  /\ TotalDuration(filtered) = 4

(***************************************************************************)
(* What the claims read off a speed test.                                  *)
(***************************************************************************)
\* The probe of s has returned and its race promise holds that result.
WonRace(s) == probe[s].result # NoResult /\ raceResult[s] = probe[s].result

IsTimeoutEntry(r) == ~r.available /\ r.error = "Timeout" /\ r.speed = Infinity

EntriesOf(s) == { k \in 1..Len(ranked) : ranked[k].source = s }

(***************************************************************************)
(* C5: a started testAllSources returns, no later than SPEED_TEST_TIMEOUT  *)
(* after its start, whatever the probes do; it does not wait for a probe   *)
(* that is still running at the deadline.                                  *)
(***************************************************************************)
C5_ReturnsByDeadline ==
  /\ (racePc = "racing") ~> (racePc = "done")
  /\ [](racePc = "racing" => now <= RaceDeadline)
  /\ [][racePc = "racing" /\ racePc' = "done" => now' <= RaceDeadline]_vars

\* returned at the deadline while a probe is still searching
C5_Witness ==
  /\ racePc = "done"
  /\ now = RaceDeadline
  /\ \E s \in SourceIds : probe[s].pc = "search"
  /\ \E s \in SourceIds : probe[s].pc = "returned" /\ raceResult[s].available

(***************************************************************************)
(* C6: a probe that has not completed when its deadline timer runs is      *)
(* reported unavailable with error Timeout and infinite latency; what that *)
(* probe returns later never replaces the timeout entry, and the returned  *)
(* array holds exactly one entry per source, the one its race settled      *)
(* with, and does not change afterwards.                                   *)
(***************************************************************************)
C6_LateResultDiscarded ==
  /\ [](\A s \in SourceIds :
          raceResult[s] # NoResult /\ probe[s].result = NoResult => IsTimeoutEntry(raceResult[s]))
  /\ [][\A s \in SourceIds : IsTimeoutEntry(raceResult[s]) => raceResult'[s] = raceResult[s]]_vars
  /\ [](racePc = "done" =>
          \A s \in SourceIds :
            /\ Cardinality(EntriesOf(s)) = 1
            /\ \A k \in EntriesOf(s) : ranked[k] = raceResult[s])
  /\ [][racePc = "done" => racePc' = "done" /\ ranked' = ranked]_vars

\* a probe found its source available after the array was returned
C6_Witness ==
  /\ racePc = "done"
  /\ \E s \in SourceIds :
       /\ probe[s].result.available
       /\ IsTimeoutEntry(raceResult[s])
       /\ \E k \in 1..Len(ranked) : ranked[k] = TimeoutResult(s)

(***************************************************************************)
(* C7: a probe that returns before its deadline timer has run contributes  *)
(* the result it returned, whatever the other probes and timers do.        *)
(***************************************************************************)
C7_EarlyResultKept ==
  /\ [](\A s \in SourceIds : probe[s].result # NoResult /\ ~timerFired[s] => WonRace(s))
  /\ [][\A s \in SourceIds : WonRace(s) => WonRace(s)']_vars
  /\ [](racePc = "done" =>
          \A s \in SourceIds : WonRace(s) => \E k \in 1..Len(ranked) : ranked[k] = probe[s].result)

\* one probe was early and available, one early and unavailable, one timed out
C7_Witness ==
  /\ racePc = "done"
  /\ \E s, t, u \in SourceIds :
       /\ WonRace(s) /\ probe[s].result.available /\ timerFired[s]
       /\ WonRace(t) /\ ~probe[t].result.available
       /\ IsTimeoutEntry(raceResult[u])

(***************************************************************************)
(* C8: testSourceSpeed never rejects: when a step throws or fails it       *)
(* returns a result with available false, an error message and infinite    *)
(* latency; testAllSources is never rejected.                              *)
(***************************************************************************)
C8_ProbeNeverRejects ==
  /\ racePc # "failed"
  /\ \A s \in SourceIds :
       /\ probe[s].pc # "rejected"
       /\ raceResult[s].source # "rejected"
       /\ probe[s].pc = "returned" =>
            /\ probe[s].result.source = s
            /\ ~probe[s].result.available =>
                 probe[s].result.speed = Infinity /\ probe[s].result.error # ""

\* each of the three steps threw in one of the probes, and the test returned
C8_Witness ==
  /\ racePc = "done"
  /\ \A s \in SourceIds : probe[s].result.error = "Network error"

(***************************************************************************)
(* C9: when a current source is supplied and the returned array holds a    *)
(* result for it, that result is first.                                    *)
(***************************************************************************)
C9_CurrentSourceFirst ==
  racePc = "done" /\ currentSource # "" /\ EntriesOf(currentSource) # {}
    => ranked[1].source = currentSource

\* the current source is the last one given, timed out, and the others are available
C9_Witness ==
  /\ racePc = "done"
  /\ currentSource = "C"
  /\ ranked[1] = TimeoutResult("C")
  /\ ranked[2].available
  /\ ranked[3].available

(***************************************************************************)
(* C10: among the results other than the current source, every available   *)
(* result precedes every unavailable one and the available results are in  *)
(* ascending order of speed.                                               *)
(***************************************************************************)
C10_OthersRanked ==
  racePc = "done" =>
    \A i, j \in 1..Len(ranked) :
      i < j /\ ranked[i].source # currentSource /\ ranked[j].source # currentSource
        => /\ ranked[j].available => ranked[i].available
           /\ ranked[i].available /\ ranked[j].available => ranked[i].speed <= ranked[j].speed

\* the sort moved the last source to the front and the first to the back
C10_Witness ==
  /\ racePc = "done"
  /\ ranked[1].source = "C" /\ ranked[1].available
  /\ ranked[2].source = "B" /\ ranked[2].available /\ ranked[1].speed < ranked[2].speed
  /\ ranked[3].source = "A" /\ ~ranked[3].available

C12_BestIsAvailable ==
  selectCall.fn = "findBestSource" =>
    LET results == selectCall.results
    IN  /\ (\A k \in 1..Len(results) : ~results[k].available) =>
              selectCall.returned = NullResult
        /\ selectCall.returned # NullResult =>
              /\ selectCall.returned.available
              /\ \E k \in 1..Len(results) : results[k] = selectCall.returned

\* findBestSource has returned null for an array of two or more results, all
\* unavailable
C12_Witness ==
  /\ selectCall.fn = "findBestSource"
  /\ Len(selectCall.results) >= 2
  /\ \A k \in 1..Len(selectCall.results) : ~selectCall.results[k].available
  /\ selectCall.returned = NullResult

(***************************************************************************)
(* C13: getCachedSpeedTest(title) returns the cached results exactly when  *)
(* an entry for title exists and Date.now() less its timestamp is below    *)
(* CACHE_DURATION; from the age CACHE_DURATION on it returns null.         *)
(***************************************************************************)
C13_HitExactlyBelowDuration ==
  cacheCall.op = "get" =>
    /\ cacheCall.returned.hit <=>
          /\ cacheCall.cached # NoEntry
          /\ cacheCall.at - cacheCall.cached.timestamp < CACHE_DURATION
    /\ cacheCall.returned.hit => cacheCall.returned.results = cacheCall.cached.results

(***************************************************************************)
(* C14: after getCachedSpeedTest(title) has returned null for an entry     *)
(* that exists and is past CACHE_DURATION, the stored cache has no entry   *)
(* for title.                                                              *)
(***************************************************************************)
C14_ExpiredEntryEvicted ==
  /\ cacheCall.op = "get"
  /\ cacheCall.cached # NoEntry
  /\ ~cacheCall.returned.hit
  => KeyIndex(storage, cacheCall.title) = 0

(***************************************************************************)
(* C15: the stored cache never holds more than MAX_ENTRIES entries, and a  *)
(* setCachedSpeedTest call stores entries of the cache it read with the    *)
(* new entry put in, dropping none that is newer than one it keeps.        *)
(***************************************************************************)
C15_AtMostTenOldestDropped ==
  /\ [](Len(storage) <= MAX_ENTRIES)
  /\ [][ storage' # storage =>
           LET entries == PutEntry(storage, [ title |-> cacheCall'.title,
                                              results |-> cacheCall'.results,
                                              timestamp |-> dateNow ])
           IN  /\ \A j \in 1..Len(storage') :
                     \E i \in 1..Len(entries) :
                        /\ entries[i].title = storage'[j].title
                        /\ entries[i].timestamp = storage'[j].timestamp
               /\ \A i \in 1..Len(entries) :
                     KeyIndex(storage', entries[i].title) = 0 =>
                       \A j \in 1..Len(storage') :
                          entries[i].timestamp <= storage'[j].timestamp ]_vars

\* a write has dropped an entry from a full cache whose timestamps differ
C15_Witness ==
  /\ cacheCall.op = "set"
  /\ Len(storage) = MAX_ENTRIES
  /\ KeyIndex(storage, cacheCall.title) # 0
  /\ \E t \in Titles : t < cacheCall.title /\ KeyIndex(storage, t) = 0
  /\ \E i, j \in 1..Len(storage) : storage[i].timestamp < storage[j].timestamp

(***************************************************************************)
(* C16: when two writers store results for different titles at the same    *)
(* time, both entries are in the cache afterwards: the title of every      *)
(* setCachedSpeedTest call that has returned has an entry.                 *)
(***************************************************************************)
C16_NoLostUpdate ==
  \A w \in Windows : tabDone[w] # 0 => KeyIndex(storage, tabDone[w]) # 0

(***************************************************************************)
(* C17: in a session that passes the number of retries it has issued,      *)
(* network faults are granted at most maxRetries resume-load retries: a    *)
(* network fault that comes when maxRetries retries have been issued is    *)
(* answered with no retry action and the session is Fatal.                 *)
(***************************************************************************)
C17_ThreeNetworkRetries ==
  /\ networkRetries <= maxRetries
  /\ hlsCall.called /\ hlsCall.errorData.type = "networkError"
       /\ hlsCall.retryCount >= maxRetries =>
         /\ ~hlsCall.returned.shouldRetry
         /\ hlsCall.returned.action \notin { "startLoad", "recoverMedia" }
         /\ sessionState = "Fatal"

\* three network faults in a row were retried and the fourth made the session
\* Fatal
C17_Witness ==
  /\ networkRetries = maxRetries
  /\ mediaRetries = 0
  /\ hlsCall.errorData.type = "networkError"
  /\ hlsCall.retryCount = maxRetries
  /\ sessionState = "Fatal"

(***************************************************************************)
(* C18, as stated: for a network fault handleHLSError returns startLoad    *)
(* with shouldRetry true when retryCount is below 3, and action none with  *)
(* shouldRetry false when retryCount is 3 or more.                         *)
(***************************************************************************)
C18_NetworkNoneAtLimit ==
  hlsCall.called /\ hlsCall.errorData.type = "networkError" =>
    IF hlsCall.retryCount < 3
    THEN hlsCall.returned.action = "startLoad" /\ hlsCall.returned.shouldRetry
    ELSE hlsCall.returned.action = "none" /\ ~hlsCall.returned.shouldRetry

(***************************************************************************)
(* C18, amended: for a network fault handleHLSError returns startLoad with *)
(* shouldRetry true when retryCount is below 3; when retryCount is 3 or    *)
(* more it returns shouldRetry false, with action none when the fault is   *)
(* not marked fatal and action destroy when it is.                         *)
(***************************************************************************)
C18_NetworkRetryThenStop ==
  hlsCall.called /\ hlsCall.errorData.type = "networkError" =>
    IF hlsCall.retryCount < 3
    THEN hlsCall.returned.action = "startLoad" /\ hlsCall.returned.shouldRetry
    ELSE /\ ~hlsCall.returned.shouldRetry
         /\ hlsCall.returned.action =
              IF hlsCall.errorData.fatal THEN "destroy" ELSE "none"

\* a fatal network fault at retryCount 3 or more was answered with destroy
C18_Witness ==
  /\ hlsCall.called
  /\ hlsCall.errorData.type = "networkError"
  /\ hlsCall.errorData.fatal
  /\ hlsCall.retryCount >= 3
  /\ hlsCall.returned.action = "destroy"

(***************************************************************************)
(* C19: a media fault with detail bufferAppendError and retryCount below 3 *)
(* is ignored: handleHLSError asks for no recovery action.                 *)
(***************************************************************************)
C19_BufferAppendIgnored ==
  /\ hlsCall.called
  /\ hlsCall.errorData.type = "mediaError"
  /\ hlsCall.errorData.details = "bufferAppendError"
  /\ hlsCall.retryCount < 3
  => ~hlsCall.returned.shouldRetry /\ hlsCall.returned.action = "none"

(***************************************************************************)
(* C20: a media fault with detail bufferStalledError is answered with      *)
(* startLoad and shouldRetry true for every retryCount, those of 3 or more *)
(* included.                                                               *)
(***************************************************************************)
C20_StalledAlwaysResumes ==
  /\ hlsCall.called
  /\ hlsCall.errorData.type = "mediaError"
  /\ hlsCall.errorData.details = "bufferStalledError"
  => hlsCall.returned.shouldRetry /\ hlsCall.returned.action = "startLoad"

\* a stalled buffer at retryCount 3 or more was answered with startLoad
C20_Witness ==
  /\ hlsCall.called
  /\ hlsCall.errorData.type = "mediaError"
  /\ hlsCall.errorData.details = "bufferStalledError"
  /\ hlsCall.retryCount >= 3
  /\ hlsCall.returned.action = "startLoad"

(***************************************************************************)
(* C21, as stated: for a media fault that is neither bufferAppendError nor *)
(* bufferStalledError handleHLSError returns recoverMedia with shouldRetry *)
(* true when retryCount is below 3, and action none with shouldRetry false *)
(* when retryCount is 3 or more.                                           *)
(***************************************************************************)
C21_MediaNoneAtLimit ==
  /\ hlsCall.called
  /\ hlsCall.errorData.type = "mediaError"
  /\ hlsCall.errorData.details \notin { "bufferAppendError", "bufferStalledError" }
  => IF hlsCall.retryCount < 3
     THEN hlsCall.returned.action = "recoverMedia" /\ hlsCall.returned.shouldRetry
     ELSE hlsCall.returned.action = "none" /\ ~hlsCall.returned.shouldRetry

(***************************************************************************)
(* C21, amended: for such a media fault handleHLSError returns             *)
(* recoverMedia with shouldRetry true when retryCount is below 3; when     *)
(* retryCount is 3 or more it returns shouldRetry false, with action none  *)
(* when the fault is not marked fatal and action destroy when it is.       *)
(***************************************************************************)
C21_MediaRecoverThenStop ==
  /\ hlsCall.called
  /\ hlsCall.errorData.type = "mediaError"
  /\ hlsCall.errorData.details \notin { "bufferAppendError", "bufferStalledError" }
  => IF hlsCall.retryCount < 3
     THEN hlsCall.returned.action = "recoverMedia" /\ hlsCall.returned.shouldRetry
     ELSE /\ ~hlsCall.returned.shouldRetry
          /\ hlsCall.returned.action =
               IF hlsCall.errorData.fatal THEN "destroy" ELSE "none"

\* a media fault that is not fatal was answered with none at retryCount 3 or
\* more
C21_Witness ==
  /\ hlsCall.called
  /\ hlsCall.errorData.type = "mediaError"
  /\ hlsCall.errorData.details = "fragParsingError"
  /\ ~hlsCall.errorData.fatal
  /\ hlsCall.retryCount >= 3
  /\ hlsCall.returned.action = "none"

\* the fault of the last call is one handleHLSError retries: a network fault
\* or a media fault below 3 retries, or a stalled buffer
RetryApplies ==
  \/ hlsCall.errorData.type \in { "networkError", "mediaError" } /\ hlsCall.retryCount < 3
  \/ /\ hlsCall.errorData.type = "mediaError"
     /\ hlsCall.errorData.details = "bufferStalledError"

(***************************************************************************)
(* C22, as stated: for a fault marked fatal handleHLSError returns action  *)
(* destroy with shouldRetry false, and the session is Fatal.               *)
(***************************************************************************)
C22_FatalDestroys ==
  hlsCall.called /\ hlsCall.errorData.fatal =>
    /\ hlsCall.returned.action = "destroy"
    /\ ~hlsCall.returned.shouldRetry
    /\ sessionState = "Fatal"

(***************************************************************************)
(* C22, amended: for a fault marked fatal that handleHLSError does not     *)
(* retry (its type is neither network nor media, or retryCount is 3 or     *)
(* more and it is not a stalled buffer) handleHLSError returns action      *)
(* destroy with shouldRetry false and the session is Fatal; a fatal        *)
(* network or media fault below 3 retries, and a fatal stalled buffer, is  *)
(* answered with its retry action.                                         *)
(***************************************************************************)
C22_FatalDestroysUnlessRetried ==
  hlsCall.called /\ hlsCall.errorData.fatal =>
    IF RetryApplies
    THEN /\ hlsCall.returned.shouldRetry
         /\ hlsCall.returned.action \in { "startLoad", "recoverMedia" }
    ELSE /\ hlsCall.returned.action = "destroy"
         /\ ~hlsCall.returned.shouldRetry
         /\ sessionState = "Fatal"

\* a fatal fault of another type was answered with destroy and the session is
\* Fatal
C22_Witness ==
  /\ hlsCall.called
  /\ hlsCall.errorData.fatal
  /\ hlsCall.errorData.type = "otherError"
  /\ hlsCall.returned.action = "destroy"
  /\ sessionState = "Fatal"

(***************************************************************************)
(* C23: retry budgets are per fault class.  A network fault is refused a   *)
(* retry only when 3 network retries have been issued, a media fault only  *)
(* when 3 media retries have been issued; a fault of one class leaves the  *)
(* counter of the other alone; and a counter goes down only when a new     *)
(* session starts, never on a fault or a recovery.                         *)
(***************************************************************************)
C23_BudgetsPerClass ==
  /\ [](hlsCall.called /\ ~hlsCall.returned.shouldRetry =>
          /\ hlsCall.errorData.type = "networkError" => networkRetries >= maxRetries
          /\ hlsCall.errorData.type = "mediaError" => mediaRetries >= maxRetries)
  /\ [][ /\ hlsCall'.called /\ hlsCall'.errorData.type = "networkError" =>
              mediaRetries' = mediaRetries
         /\ hlsCall'.called /\ hlsCall'.errorData.type = "mediaError" =>
              networkRetries' = networkRetries
         /\ networkRetries' < networkRetries \/ mediaRetries' < mediaRetries =>
              /\ hlsCall' = NoHlsCall
              /\ networkRetries' = 0
              /\ mediaRetries' = 0 ]_vars

\* with the media budget used up, a network fault was still granted a retry
C23_Witness ==
  /\ mediaRetries >= maxRetries
  /\ hlsCall.errorData.type = "networkError"
  /\ hlsCall.returned.action = "startLoad"
  /\ networkRetries = 1

(***************************************************************************)
(* C24: retryWithBackoff calls fn again exactly Delay after the failure of *)
(* attempt i, initialDelay * 2^i: with the defaults 1 s, 2 s and 4 s.  It  *)
(* calls fn at most maxRetries + 1 times, not again after a success, and   *)
(* throws only when the last attempt has failed, with the error of that    *)
(* attempt.                                                                *)
(***************************************************************************)
C24_BackoffDoubles ==
  /\ [](/\ backoff.calls <= backoff.args.maxRetries + 1
        /\ backoff.calls >= 2 /\ backoff.pc = "calling" =>
             /\ backoff.calledAt - backoff.failedAt
                  = backoff.args.initialDelay * 2 ^ (backoff.calls - 2)
             /\ backoff.args.initialDelay = 1000 =>
                  backoff.calledAt - backoff.failedAt
                    = CASE backoff.calls = 2 -> 1000
                        [] backoff.calls = 3 -> 2000
                        [] backoff.calls = 4 -> 4000
        /\ backoff.pc = "waiting" => backoff.now <= backoff.timerAt
        /\ backoff.pc = "thrown" =>
             /\ backoff.calls = backoff.args.maxRetries + 1
             /\ backoff.outcome = backoff.failedWith
        /\ backoff.pc = "returned" => backoff.outcome = "value")
  /\ [][backoff.pc \in { "returned", "thrown" } => backoff' = backoff]_vars

\* the default call has waited 1 s, 2 s and 4 s and thrown the fourth error
C24_Witness ==
  /\ backoff.pc = "thrown"
  /\ backoff.args.initialDelay = 1000
  /\ backoff.calls = 4
  /\ backoff.now >= 7000

(***************************************************************************)
(* C25: the custom patterns are consulted by every classification: when    *)
(* filterM3U8Playlist runs, every segment whose resolved URI contains a    *)
(* stored custom pattern, compared case-insensitively, is classified as an *)
(* ad and is not in the output.                                            *)
(***************************************************************************)
C25_CustomPatternFilters ==
  [][ content' # content =>
        \A k \in 1..Len(parsed'.segments) :
          LET uri == resolveUrl(parsed'.segments[k].url, baseUrl')
          IN  (\E j \in 1..Len(patternStore.patterns) :
                 Includes(ToLowerCase(uri), ToLowerCase(patternStore.patterns[j]))) =>
                /\ parsed'.segments[k].isAd
                /\ \A i \in 1..Len(filtered') : filtered'[i] # parsed'.segments[k].url ]_vars

(***************************************************************************)
(* C26: the stored custom pattern list never holds a string twice; adding  *)
(* a pattern that is present leaves the list unchanged, adding a new one   *)
(* appends it, and removing a pattern deletes that string and leaves every *)
(* other pattern in place and in order.                                    *)
(***************************************************************************)
C26_PatternListIsSet ==
  /\ [](\A i, j \in 1..Len(patternStore.patterns) :
          patternStore.patterns[i] = patternStore.patterns[j] => i = j)
  /\ [][ LET old == patternStore.patterns
             new == patternStore'.patterns
             p   == patternStore'.pattern
             at  == { k \in 1..Len(old) : old[k] = p }
         IN  /\ patternStore'.op = "add" =>
                  new = IF at # { } THEN old ELSE old \o << p >>
             /\ patternStore'.op = "remove" =>
                  /\ Len(new) = Len(old) - Cardinality(at)
                  /\ \A k \in 1..Len(old) :
                        old[k] # p =>
                          new[k - Cardinality({ m \in at : m < k })] = old[k] ]_vars

\* a pattern has been removed from the middle of a list
C26_Witness ==
  /\ patternStore.op = "remove"
  /\ Len(patternStore.patterns) >= 2
  /\ patternStore.patterns[1] = "seg1"
  /\ patternStore.patterns[2] = "seg2"
  /\ patternStore.pattern = "SEG1"

(***************************************************************************)
(* C27: parsing fails with a ParseError exactly when some #EXTINF line has *)
(* no URI line after it before the end of the input.                       *)
(***************************************************************************)
C27_ParseErrorIffDanglingExtinf ==
  Loaded =>
    LET dangling == \E i \in 1..Len(content) :
                      /\ StartsWith(Trim(content[i]), "#EXTINF")
                      /\ \A j \in (i + 1)..Len(content) : ~IsUriLine(content[j])
    IN  parseM3U8Outcome(content, baseUrl).kind = "ParseError" <=> dangling

(***************************************************************************)
(* C28: every non-blank input line that does not belong to a removed ad    *)
(* segment is held by the header or by a segment of the parse, and is a    *)
(* line of the filtered output.                                            *)
(***************************************************************************)
C28_NoLineDropped ==
  Loaded =>
    LET lineSet(q) == { q[k] : k \in 1..Len(q) }
        segs     == InputSegments
        linesOf(k) == lineSet(segs[k].metadata) \cup { segs[k].url }
        removed  == UNION { linesOf(k) : k \in { n \in 1..Len(segs) : segs[n].isAd } }
        held     == lineSet(parsed.header) \cup UNION { linesOf(k) : k \in 1..Len(segs) }
    IN  \A k \in 1..Len(content) :
          LET line == Trim(content[k])
          IN  line # "" /\ line \notin removed =>
                line \in held /\ line \in lineSet(filtered)

(***************************************************************************)
(* C29: the discontinuity markers of the output after its header are       *)
(* exactly those the retained segments carry in their metadata: each is    *)
(* kept once, none is removed and none is added.                           *)
(***************************************************************************)
C29_ExistingMarkerKeptOnce ==
  Loaded =>
    LET markers(q) == Cardinality({ k \in 1..Len(q) : IsDiscontinuityLine(q[k]) })
        kept       == SelectSeq(InputSegments, NotAd)
        RECURSIVE carried(_)
        carried(k) == IF k = 0 THEN 0 ELSE markers(kept[k].metadata) + carried(k - 1)
    IN  markers(filtered) - markers(parsed.header) = carried(Len(kept))

(***************************************************************************)
(* C30: viewingHistory never holds more than MAX_HISTORY_ITEMS items, and  *)
(* when addToHistory drops an item it is the one at the end of the list    *)
(* and no item that stays was added or updated earlier than it.            *)
(***************************************************************************)
C30_AtMostFiftyOldestDropped ==
  /\ [](Len(history.viewingHistory) <= MAX_HISTORY_ITEMS)
  /\ [][ LET old == history.viewingHistory
             new == history'.viewingHistory
             ids(q) == { q[k].videoId : k \in 1..Len(q) }
         IN  \A k \in 1..Len(old) :
               history'.op = "addToHistory" /\ old[k].videoId \notin ids(new) =>
                 /\ k = Len(old)
                 /\ \A m \in 1..Len(old) : old[k].timestamp <= old[m].timestamp ]_vars

(***************************************************************************)
(* C31: viewingHistory never holds two items of the same show, and         *)
(* addToHistory of a show that is present updates its item: the list keeps *)
(* its length and the item carries the time of the call.                   *)
(***************************************************************************)
C31_NoDuplicateShow ==
  /\ [](\A i, j \in 1..Len(history.viewingHistory) :
          history.viewingHistory[i].videoId = history.viewingHistory[j].videoId => i = j)
  /\ [][ LET old == history.viewingHistory
             new == history'.viewingHistory
         IN  (/\ history'.op = "addToHistory"
              /\ \E k \in 1..Len(old) : old[k].videoId = history'.videoId) =>
               /\ Len(new) = Len(old)
               /\ \E k \in 1..Len(new) :
                     new[k] = [ videoId |-> history'.videoId, timestamp |-> history'.calls ] ]_vars

\* a show that was in a list of several items has been added again
C31_Witness ==
  /\ history.op = "addToHistory"
  /\ history.others = 1
  /\ history.videoId < history.calls
  /\ Len(history.viewingHistory) >= 3

(***************************************************************************)
(* C32: after addToHistory the show's item is first in viewingHistory, and *)
(* the items after it are the other items of the list before the call, in  *)
(* the order they had.                                                     *)
(***************************************************************************)
C32_AddedShowFirst ==
  [][ LET old == history.viewingHistory
          new == history'.viewingHistory
          isOther(item) == item.videoId # history'.videoId
          rest == SelectSeq(old, isOther)
      IN  history'.op = "addToHistory" =>
            /\ new # << >>
            /\ new[1].videoId = history'.videoId
            /\ Len(new) - 1 <= Len(rest)
            /\ Tail(new) = SubSeq(rest, 1, Len(new) - 1) ]_vars

\* the show at the end of a list of several items has been added again and
\* is now first
C32_Witness ==
  /\ history.op = "addToHistory"
  /\ history.others = 1
  /\ Len(history.viewingHistory) >= 3
  /\ history.viewingHistory[1].videoId = 1
  /\ history.viewingHistory[1].timestamp = history.calls
  /\ history.viewingHistory[2].timestamp > history.viewingHistory[3].timestamp

(***************************************************************************)
(* C33: for an ok response whose body has a subjects array, fetchDoubanHot *)
(* returns one item per subject in the order of the subjects; the rank of  *)
(* an item is its 1-based position, its rating is null when the subject's  *)
(* rate is absent or not a finite number, and the rate otherwise.          *)
(***************************************************************************)
C33_MapsSubjectsInOrder ==
  LET subjects == douban.response.body.subjects
      items    == douban.outcome.items
  IN  (/\ douban.outcome.kind # "none"
       /\ douban.response.ok
       /\ douban.response.body.kind = "array") =>
        /\ douban.outcome.kind = "returned"
        /\ Len(items) = Len(subjects)
        /\ \A k \in 1..Len(subjects) :
              /\ items[k].rank = k
              /\ items[k].id = IF subjects[k].id = "undefined" THEN ToString(k - 1)
                                ELSE subjects[k].id
              /\ subjects[k].rate \in { "undefined", "abc", "Infinity" } =>
                    items[k].rating = JsonNull
              /\ subjects[k].rate = "8.5" => items[k].rating = 85

\* two subjects, the first with a rate and the second without
C33_Witness ==
  /\ douban.outcome.kind = "returned"
  /\ Len(douban.outcome.items) = 2
  /\ douban.outcome.items[1].rating = 85
  /\ douban.outcome.items[2].rank = 2
  /\ douban.outcome.items[2].rating = JsonNull
  /\ douban.response.body.subjects[2].rate = "undefined"

(***************************************************************************)
(* C34: when the response is not ok, or its body has no subjects array,    *)
(* fetchDoubanHot throws and returns no list.                              *)
(***************************************************************************)
C34_InvalidResponseThrows ==
  (/\ douban.outcome.kind # "none"
   /\ ~douban.response.ok \/ douban.response.body.kind # "array") =>
    /\ douban.outcome.kind = "thrown"
    /\ douban.outcome.items = << >>

\* an ok response whose body has no subjects
C34_Witness ==
  /\ douban.outcome.kind = "thrown"
  /\ douban.response.ok
  /\ douban.response.body.kind = "noSubjects"
  /\ douban.outcome.message = "Invalid Douban hot response format"

(***************************************************************************)
(* C35: every testSourceSpeed call runs its search, then the detail fetch, *)
(* then the URL check, and a call that has returned takes no further step. *)
(* The result "not found" is returned by the step that ends the search, so *)
(* no detail record was fetched; the result "no episodes" is returned by   *)
(* the step that ends the detail fetch, so no URL was checked.             *)
(***************************************************************************)
C35_StepsInOrder ==
  [][ \A s \in SourceIds :
        LET before == probe[s]
            after  == probe'[s]
        IN  /\ after.pc = "search" /\ before.pc # "search" => before.pc = "idle"
            /\ after.pc = "detail" /\ before.pc # "detail" => before.pc = "search"
            /\ after.pc = "urltest" /\ before.pc # "urltest" => before.pc = "detail"
            /\ before.pc = "returned" => after = before
            /\ after.result = NotFoundResult(s) /\ before.result # after.result =>
                  before.pc = "search" /\ after.pc = "returned"
            /\ after.result = NoEpisodesResult(s) /\ before.result # after.result =>
                  before.pc = "detail" /\ after.pc = "returned" ]_vars

\* one call has ended at its search, one at its detail fetch, and one has
\* gone on to the URL check
C35_Witness ==
  /\ probe["A"].result = NotFoundResult("A")
  /\ probe["B"].result = NoEpisodesResult("B")
  /\ probe["C"].pc = "urltest"

(***************************************************************************)
(* C36: two invocations of saveProgress by a saver are at least the save   *)
(* interval apart, and at most one deferred save is pending.               *)
(***************************************************************************)
C36_SavesThrottled ==
  /\ [](Cardinality(tracker.timers) <= 1)
  /\ [][ tracker'.saves # tracker.saves =>
           /\ tracker'.saves = tracker.saves + 1
           /\ tracker.saves > 0 => tracker'.savedAt - tracker.savedAt >= SaveInterval ]_vars

\* a deferred save has run after an immediate one, and another is pending
C36_Witness ==
  /\ tracker.saves >= 2
  /\ tracker.savedAt = tracker.lastSaveTime
  /\ Cardinality(tracker.timers) = 1
  /\ \E timer \in tracker.timers : timer.due > tracker.now

(***************************************************************************)
(* C37, as stated: a stored entry satisfies shouldResumeProgress; every    *)
(* save with less than RESUME_MAX_REMAINING remaining removes the entry    *)
(* and every save with a position below the threshold leaves the store     *)
(* unchanged.                                                              *)
(***************************************************************************)
C37_StoredIsResumable ==
  /\ [](tracker.stored # NoProgress =>
          /\ shouldResumeProgress(tracker.stored)
          /\ tracker.stored.position >= 10
          /\ tracker.stored.duration > 0 =>
                tracker.stored.duration - tracker.stored.position >= 120)
  /\ [][ tracker'.saves # tracker.saves =>
           LET position == tracker'.saved.position
               duration == tracker'.saved.duration
           IN  /\ duration > 0 /\ duration - position < 120 =>
                     tracker'.stored = NoProgress
               /\ position < 10 => tracker'.stored = tracker.stored ]_vars

(***************************************************************************)
(* C37, amended: a stored entry satisfies shouldResumeProgress; a save     *)
(* with a position of at least the threshold and less than                 *)
(* RESUME_MAX_REMAINING remaining removes the entry, and every save with a *)
(* position below the threshold leaves the store unchanged.                *)
(***************************************************************************)
C37_StoredIsResumableLateClears ==
  /\ [](tracker.stored # NoProgress =>
          /\ shouldResumeProgress(tracker.stored)
          /\ tracker.stored.position >= 10
          /\ tracker.stored.duration > 0 =>
                tracker.stored.duration - tracker.stored.position >= 120)
  /\ [][ tracker'.saves # tracker.saves =>
           LET position == tracker'.saved.position
               duration == tracker'.saved.duration
           IN  /\ position >= 10 /\ duration > 0 /\ duration - position < 120 =>
                     tracker'.stored = NoProgress
               /\ position < 10 => tracker'.stored = tracker.stored ]_vars

\* an entry is stored and the last save, early in a short video, left it
C37_Witness ==
  /\ tracker.stored # NoProgress
  /\ tracker.stored.duration = 200
  /\ tracker.saved = [ position |-> 5, duration |-> 100 ]
  /\ tracker.savedAt > tracker.stored.timestamp

(***************************************************************************)
(* C38: nextEpisode and prevEpisode never fail; when one returns an        *)
(* episode, currentVideo.episodeIndex is a valid index into episodes,      *)
(* currentVideo.url is the url of that episode and playbackPosition is 0;  *)
(* when one returns null, the store is as it was.                          *)
(***************************************************************************)
C38_EpisodeStepIsSafe ==
  [][ player'.op \in { "nextEpisode", "prevEpisode" } =>
        /\ player'.returned # "TypeError"
        /\ player'.returned = "episode" =>
              /\ ~player'.currentVideo.isNull
              /\ player'.currentVideo.episodeIndex \in 0..(Len(player'.episodes) - 1)
              /\ player'.currentVideo.url =
                    player'.episodes[player'.currentVideo.episodeIndex + 1]
              /\ player'.playbackPosition = 0
        /\ player'.returned = "null" =>
              /\ player'.currentVideo = player.currentVideo
              /\ player'.episodes = player.episodes
              /\ player'.playbackPosition = player.playbackPosition ]_vars

(***************************************************************************)
(* C39: right after setCachedSpeedTest(videoTitle, results), at the same   *)
(* time, getCachedSpeedTest(videoTitle) is a hit and returns the results   *)
(* as they were serialised: the entry just written is in the cache.        *)
(***************************************************************************)
C39_ReadYourWrite ==
  [][ cacheCall'.op = "set" =>
        getCachedSpeedTest(storage', cacheCall'.title, dateNow')
          = [ hit |-> TRUE, results |-> JsonResults(cacheCall'.results) ] ]_vars

(***************************************************************************)
(* C40: in every answer of handleHLSError, shouldRetry is true exactly     *)
(* when the action is startLoad or recoverMedia and false exactly when it  *)
(* is destroy or none, and the retryable flag of the returned error equals *)
(* shouldRetry.                                                            *)
(***************************************************************************)
C40_AnswerConsistent ==
  hlsCall.called =>
    /\ hlsCall.returned.action \in { "startLoad", "recoverMedia", "destroy", "none" }
    /\ hlsCall.returned.shouldRetry <=>
          hlsCall.returned.action \in { "startLoad", "recoverMedia" }
    /\ ~hlsCall.returned.shouldRetry <=> hlsCall.returned.action \in { "destroy", "none" }
    /\ hlsCall.returned.error.retryable = hlsCall.returned.shouldRetry

\* a fatal network fault after the retries: destroy, not to be retried
C40_Witness ==
  /\ hlsCall.called
  /\ hlsCall.errorData.type = "networkError"
  /\ hlsCall.retryCount >= maxRetries
  /\ hlsCall.returned.action = "destroy"
  /\ ~hlsCall.returned.shouldRetry
  /\ ~hlsCall.returned.error.retryable

=============================================================================
